---- MODULE Spec2Model ----
(***************************************************************************)
(* Model of the operation execution engine of harmonyjs/apple-script.      *)
(*                                                                         *)
(* Part 1: the per-appId FIFO queue (src/queue/queue.ts, class Queue) and  *)
(* the registry that owns the queues (src/queue/queue-manager.ts, class    *)
(* QueueManager), on the JavaScript run-to-completion execution model:     *)
(* a caller runs a synchronous turn, microtasks (queueMicrotask callbacks  *)
(* and await continuations) run only once the current turn has ended, in   *)
(* FIFO order.                                                             *)
(*                                                                         *)
(* Part 2: the runner (src/runner/runner.ts, class AppleRunner): run() and *)
(* its retry loop, executeOperation() with its pipeline steps, hooks and   *)
(* catch block, the retry policy, the error factory and the size checks of *)
(* the marshaller; and Queue.drain().                                      *)
(***************************************************************************)
EXTENDS Integers, Sequences, FiniteSets, TLC

\* ---------------------------------------------------------------- bounds
MaxTasks == 3     \* number of execute() calls explored
MaxQueues == 3    \* number of Queue objects the registry may construct
MaxClears == 2    \* Queue.clear() calls explored, over all Queue objects
MaxRuns == 2      \* number of AppleRunner.run() calls explored
MaxRetries == 2   \* largest configured RunnerConfig.maxRetries explored
MaxDrains == 1    \* number of Queue.drain() calls explored
MaxLen == 3       \* longest parameter string marshalled, in characters
MaxOut == 4       \* longest output of the osascript process decoded, in characters
MaxFields == 3    \* largest number of fields in a row of a rows payload

AppIds == {"a", "b"}
TaskIds == 1..MaxTasks
QIds == 1..MaxQueues
NoQueue == 0

\* errors a caller may hand to clear(rejectWith?); "undefined" = omitted
ClearArgs == {"undefined", "E1", "E2"}
QueueCleared == "Queue cleared"
TaskError == "task error"
NoError == "none"

VARIABLES
  queues,              \* QueueManager.queues : appId -> Queue object (NoQueue = no entry)
  created,             \* number of Queue objects constructed so far
  tasks,               \* Queue.tasks : the pending list, per Queue object
  isProcessing,        \* Queue.isProcessing
  processingScheduled, \* Queue.processingScheduled
  clearEpoch,          \* Queue.clearEpoch
  lastClearError,      \* Queue.lastClearError ("null" before the first clear)
  stats,               \* Queue.stats : totalProcessed / totalFailed
  task,                \* the QueueTask objects, by submission number
  submitted,           \* number of execute() calls made so far
  microtasks,          \* the runtime's microtask queue: Queue objects whose start is scheduled
  callerActive,        \* a caller's synchronous turn is running
  clearLog,            \* history: the rejectWith argument of every clear() call, per Queue object
  fnResult,            \* what the function of each task produced when it finished
  maxRetries,          \* AppleRunner.config.maxRetries
  run,                 \* the run() calls of the runner, by call number
  rstats,              \* RunnerStatsManager.stats
  internalTurn,        \* the turn that is running is a callback of the runner, not caller code
  drain,               \* the drain() calls, by call number
  call,                \* a call of one of the pure functions: its arguments and what it returned
  queues2              \* QueueManager.queues of a second AppleRunner instance

vars == <<queues, created, tasks, isProcessing, processingScheduled, clearEpoch,
          lastClearError, stats, task, submitted, microtasks, callerActive, clearLog,
          fnResult, maxRetries, run, rstats, internalTurn, drain, call, queues2>>

\* the state of the registry and of its queues
managerVars == <<queues, created, tasks, isProcessing, processingScheduled, clearEpoch,
                 lastClearError, stats, task, submitted, microtasks, clearLog>>

\* the state of the runner
runnerVars == <<maxRetries, run, rstats, internalTurn>>

\* what the registry and its queues never touch
extVars == <<fnResult, maxRetries, run, rstats, internalTurn, drain, call, queues2>>

queueVars == <<tasks, isProcessing, processingScheduled, clearEpoch,
               lastClearError, stats, task, microtasks>>

\* A QueueTask before add() has created it.
NoTask == [state |-> "unused", appId |-> "a", queue |-> NoQueue, epoch |-> 0,
           error |-> NoError, sync |-> FALSE, startedSync |-> FALSE,
           invoked |-> FALSE, cutBy |-> 0, inFlightAtClear |-> FALSE]

\* ---- values of the runner
RunIds == 1..MaxRuns
DrainIds == 1..MaxDrains
RetryBounds == -1..MaxRetries
Absent == -1                 \* an option that was not given (undefined)
RunnerAppId == "a"           \* RunnerConfig.appId

\* MAX_SIZES and DEFAULT_TIMEOUTS
STRING_ARG_KB == 100
JS_CODE_KB == 512
ARRAY_ITEMS == 1000
CONTROLLER_MS == 15000
APPLESCRIPT_SEC == 12

\* the observability hooks of RunnerConfig
Hooks == {"debug", "onResult", "onError"}

\* what the osascript process of a task does: it prints an OK envelope, an
\* ERR envelope with the Apple Event timeout code, an ERR envelope with
\* another code (or no envelope at all), it is killed by the controller
\* timeout, or it fails to run
ProcessOutcomes == {"OK", "ERR_TIMEOUT", "ERR_OTHER", "ETIMEDOUT", "EXEC_FAIL"}

\* what post-processing of a decoded payload does
PostOutcomes == {"pass", "ProtocolParseError", "OutputValidationError"}

\* errors a task function handed to Queue.add() may throw
ThrownErrors == {"E1", "Queue cleared", "boom"}

\* a parameter of an operation's input: its JavaScript type, whether it has
\* the js hint, its size in bytes (of each item for an array), its item count
Param(type, js, bytes, items) == [type |-> type, js |-> js, bytes |-> bytes, items |-> items]
SmallParam == Param("string", FALSE, 5, 0)
SizeParams ==
  { SmallParam,
    Param("string", FALSE, STRING_ARG_KB * 1024, 0),
    Param("string", FALSE, STRING_ARG_KB * 1024 + 1, 0),
    Param("array", FALSE, 5, ARRAY_ITEMS),
    Param("array", FALSE, 5, ARRAY_ITEMS + 1),
    Param("array", FALSE, STRING_ARG_KB * 1024 + 1, 2),
    Param("string", TRUE, JS_CODE_KB * 1024 + 1, 0),
    Param("string", TRUE, 5, 0),
    Param("string", TRUE, STRING_ARG_KB * 1024 + 1, 0),
    Param("object", FALSE, STRING_ARG_KB * 1024 + 1, 0) }

\* the input of a run() call: does it satisfy the operation's input schema,
\* its parameter, and RunOptions.controllerTimeoutMs
Input(valid, param, ctl) == [valid |-> valid, param |-> param, controllerTimeoutMs |-> ctl]
NoInput == Input(TRUE, SmallParam, Absent)
RunInputs ==
  { Input(TRUE, SmallParam, 10000),
    Input(FALSE, SmallParam, Absent) }
SizeInputs == {Input(TRUE, p, Absent) : p \in SizeParams}

\* no error; the error part of a RunResult
NoErr == [name |-> "none", message |-> "none", timeoutMs |-> Absent]
Err(name, message, timeoutMs) == [name |-> name, message |-> message, timeoutMs |-> timeoutMs]
NoResult == [ok |-> FALSE, error |-> NoErr]

\* a run() call before it is made
NoRun == [state |-> "idle", input |-> NoInput, retryCount |-> 0, task |-> 0,
          res |-> NoResult, result |-> NoResult,
          attempts |-> 0, validations |-> 0, builds |-> 0, enqueued |-> 0,
          log |-> <<>>, hookThrew |-> FALSE,
          onResultCalls |-> 0, onErrorCalls |-> 0, opOk |-> "none"]

\* a drain() call before it is made
NoDrain == [state |-> "none", queue |-> NoQueue, before |-> {}, polled |-> FALSE,
            heldBy |-> {}]

\* new QueueManager(): no queue; every Queue object as its constructor leaves it
InitManager ==
  /\ queues = [k \in AppIds |-> NoQueue]
  /\ created = 0
  /\ tasks = [q \in QIds |-> <<>>]
  /\ isProcessing = [q \in QIds |-> FALSE]
  /\ processingScheduled = [q \in QIds |-> FALSE]
  /\ clearEpoch = [q \in QIds |-> 0]
  /\ lastClearError = [q \in QIds |-> "null"]
  /\ stats = [q \in QIds |-> [totalProcessed |-> 0, totalFailed |-> 0]]
  /\ task = [t \in TaskIds |-> NoTask]
  /\ submitted = 0
  /\ microtasks = <<>>
  /\ callerActive = FALSE
  /\ clearLog = [q \in QIds |-> <<>>]
  /\ fnResult = [t \in TaskIds |-> "none"]
  /\ drain = [d \in DrainIds |-> NoDrain]
  /\ queues2 = [k \in AppIds |-> NoQueue]

\* new AppleRunner(config) with the given maxRetries
InitRunnerWith(n) ==
  /\ maxRetries = n
  /\ run = [r \in RunIds |-> NoRun]
  /\ rstats = [totalOperations |-> 0, successfulOperations |-> 0,
               failedOperations |-> 0, totalRetries |-> 0]
  /\ internalTurn = FALSE

\* no pure function has been called
NoCall == [fn |-> "none"]

Init == InitManager /\ InitRunnerWith(0) /\ call = NoCall

\* ------------------------------------------------------------ Queue (queue.ts)

\* (variant) length without the scheduled-start adjustment
lengthRaw(q) == Len(tasks[q])

\* get length(): pending count minus the task whose start is scheduled
length(q) ==
  LET n == Len(tasks[q]) - (IF processingScheduled[q] THEN 1 ELSE 0)
  IN IF n > 0 THEN n ELSE 0

\* get processing()
processing(q) == isProcessing[q]

\* getStats().currentLength: the raw size of the pending list
currentLength(q) == Len(tasks[q])

\* (variant) the loop of a process() that never sets isProcessing
RECURSIVE processLoopNoFlag(_, _, _)
processLoopNoFlag(q, list, tk) ==
  IF list = <<>>
  THEN [tasks |-> <<>>, task |-> tk, isProcessing |-> FALSE]
  ELSE LET t == Head(list) IN
       IF tk[t].epoch < clearEpoch[q]
       THEN processLoopNoFlag(q, Tail(list),
              [tk EXCEPT ![t].state = "rejected",
                         ![t].error = IF lastClearError[q] = "null"
                                      THEN QueueCleared ELSE lastClearError[q]])
       ELSE [tasks |-> Tail(list),
             task |-> [tk EXCEPT ![t].state = "executing",
                                 ![t].invoked = TRUE,
                                 ![t].startedSync = tk[t].sync],
             isProcessing |-> FALSE]

\* The synchronous part of the while loop of process(): pop the head; a task
\* of an older epoch is rejected with the stored clear error and the loop
\* continues; otherwise the task function is invoked and the loop awaits it.
\* An empty list ends the loop and resets isProcessing.
RECURSIVE processLoop(_, _, _)
processLoop(q, list, tk) ==
  IF list = <<>>
  THEN [tasks |-> <<>>, task |-> tk, isProcessing |-> FALSE]
  ELSE LET t == Head(list) IN
       IF tk[t].epoch < clearEpoch[q]
       THEN processLoop(q, Tail(list),
              [tk EXCEPT ![t].state = "rejected",
                         ![t].error = IF lastClearError[q] = "null"
                                      THEN QueueCleared ELSE lastClearError[q]])
       ELSE [tasks |-> Tail(list),
             task |-> [tk EXCEPT ![t].state = "executing",
                                 ![t].invoked = TRUE,
                                 ![t].startedSync = tk[t].sync],
             isProcessing |-> TRUE]

\* process(): returns at once when already processing or empty, else sets
\* isProcessing and enters the loop.
process(q) ==
  IF isProcessing[q] \/ tasks[q] = <<>>
  THEN UNCHANGED <<tasks, task, isProcessing>>
  ELSE LET r == processLoop(q, tasks[q], task) IN
       /\ tasks' = [tasks EXCEPT ![q] = r.tasks]
       /\ task' = r.task
       /\ isProcessing' = [isProcessing EXCEPT ![q] = r.isProcessing]

\* (variant) add() that calls process() itself instead of deferring the start
addEager(q, t, appId) ==
  LET tk == [task EXCEPT ![t] = [NoTask EXCEPT !.state = "pending",
                                               !.appId = appId,
                                               !.queue = q,
                                               !.epoch = clearEpoch[q],
                                               !.sync = TRUE]]
      list == Append(tasks[q], t)
      r == processLoop(q, list, tk)
  IN /\ IF isProcessing[q]
        THEN /\ task' = tk
             /\ tasks' = [tasks EXCEPT ![q] = list]
             /\ UNCHANGED isProcessing
        ELSE /\ task' = r.task
             /\ tasks' = [tasks EXCEPT ![q] = r.tasks]
             /\ isProcessing' = [isProcessing EXCEPT ![q] = r.isProcessing]
     /\ UNCHANGED <<processingScheduled, microtasks, clearEpoch, lastClearError, stats>>

\* add(execute): create the task with the current epoch, push it, and schedule
\* a deferred start unless the queue is processing or a start is scheduled.
add(q, t, appId) ==
  /\ task' = [task EXCEPT ![t] = [NoTask EXCEPT !.state = "pending",
                                                !.appId = appId,
                                                !.queue = q,
                                                !.epoch = clearEpoch[q],
                                                !.sync = TRUE]]
  /\ tasks' = [tasks EXCEPT ![q] = Append(@, t)]
  /\ IF ~isProcessing[q] /\ ~processingScheduled[q]
     THEN /\ processingScheduled' = [processingScheduled EXCEPT ![q] = TRUE]
          /\ microtasks' = Append(microtasks, q)
     ELSE UNCHANGED <<processingScheduled, microtasks>>
  /\ UNCHANGED <<isProcessing, clearEpoch, lastClearError, stats>>

\* the task object t sits in the pending list of one of the Queue objects Q
inList(t, Q) == \E q \in Q : \E i \in 1..Len(tasks[q]) : tasks[q][i] = t

\* rejectWith ?? new Error("Queue cleared")
clearError(rejectWith) == IF rejectWith = "undefined" THEN QueueCleared ELSE rejectWith

\* the effect of clear() on the task objects: err goes to the pending tasks
\* of the Queue objects Q (and to the executing ones too when interrupt holds)
clearedTasks(Q, err, interrupt) ==
  [t \in TaskIds |->
     IF inList(t, Q)
       THEN [task[t] EXCEPT !.state = "rejected", !.error = err[task[t].queue],
                            !.cutBy = Len(clearLog[task[t].queue]) + 1]
     ELSE IF task[t].queue \in Q /\ task[t].state = "executing"
       THEN IF interrupt
            THEN [task[t] EXCEPT !.state = "rejected", !.error = err[task[t].queue],
                                 !.inFlightAtClear = TRUE]
            ELSE [task[t] EXCEPT !.inFlightAtClear = TRUE]
     ELSE task[t]]

\* (variant) clear() that rejects with the default error whatever it is given
clearDefaultError(Q, rejectWith) ==
  LET err == clearError(rejectWith) IN
  /\ clearEpoch' = [q \in QIds |-> IF q \in Q THEN clearEpoch[q] + 1 ELSE clearEpoch[q]]
  /\ lastClearError' = [q \in QIds |-> IF q \in Q THEN err ELSE lastClearError[q]]
  /\ tasks' = [q \in QIds |-> IF q \in Q THEN <<>> ELSE tasks[q]]
  /\ task' = clearedTasks(Q, [q \in QIds |-> QueueCleared], FALSE)
  /\ UNCHANGED <<isProcessing, processingScheduled, stats, microtasks>>

\* (variant) clear() that also rejects the task that is executing
clearInterrupting(Q, rejectWith) ==
  LET err == clearError(rejectWith) IN
  /\ clearEpoch' = [q \in QIds |-> IF q \in Q THEN clearEpoch[q] + 1 ELSE clearEpoch[q]]
  /\ lastClearError' = [q \in QIds |-> IF q \in Q THEN err ELSE lastClearError[q]]
  /\ tasks' = [q \in QIds |-> IF q \in Q THEN <<>> ELSE tasks[q]]
  /\ task' = clearedTasks(Q, [q \in QIds |-> err], TRUE)
  /\ UNCHANGED <<isProcessing, processingScheduled, stats, microtasks>>

\* (variant) clear() that rejects with the error stored by the previous clear
clearStaleError(Q, rejectWith) ==
  LET err == clearError(rejectWith) IN
  /\ clearEpoch' = [q \in QIds |-> IF q \in Q THEN clearEpoch[q] + 1 ELSE clearEpoch[q]]
  /\ lastClearError' = [q \in QIds |-> IF q \in Q THEN err ELSE lastClearError[q]]
  /\ tasks' = [q \in QIds |-> IF q \in Q THEN <<>> ELSE tasks[q]]
  /\ task' = clearedTasks(Q, [q \in QIds |-> IF lastClearError[q] = "null"
                                             THEN QueueCleared ELSE lastClearError[q]], FALSE)
  /\ UNCHANGED <<isProcessing, processingScheduled, stats, microtasks>>

\* (variant) clear() that returns at once when the pending list is empty
clearSkipEmpty(Q, rejectWith) ==
  LET err == clearError(rejectWith)
      R == {q \in Q : tasks[q] # <<>>} IN
  /\ clearEpoch' = [q \in QIds |-> IF q \in R THEN clearEpoch[q] + 1 ELSE clearEpoch[q]]
  /\ lastClearError' = [q \in QIds |-> IF q \in R THEN err ELSE lastClearError[q]]
  /\ tasks' = [q \in QIds |-> IF q \in R THEN <<>> ELSE tasks[q]]
  /\ task' = clearedTasks(R, [q \in QIds |-> err], FALSE)
  /\ UNCHANGED <<isProcessing, processingScheduled, stats, microtasks>>

\* (variant) clear() that empties the list without rejecting its tasks
clearForgets(Q, rejectWith) ==
  LET err == clearError(rejectWith) IN
  /\ clearEpoch' = [q \in QIds |-> IF q \in Q THEN clearEpoch[q] + 1 ELSE clearEpoch[q]]
  /\ lastClearError' = [q \in QIds |-> IF q \in Q THEN err ELSE lastClearError[q]]
  /\ tasks' = [q \in QIds |-> IF q \in Q THEN <<>> ELSE tasks[q]]
  /\ UNCHANGED <<task, isProcessing, processingScheduled, stats, microtasks>>

\* (variant) clear() that counts every task it rejects as failed
clearCountsFailed(Q, rejectWith) ==
  LET err == clearError(rejectWith) IN
  /\ clearEpoch' = [q \in QIds |-> IF q \in Q THEN clearEpoch[q] + 1 ELSE clearEpoch[q]]
  /\ lastClearError' = [q \in QIds |-> IF q \in Q THEN err ELSE lastClearError[q]]
  /\ tasks' = [q \in QIds |-> IF q \in Q THEN <<>> ELSE tasks[q]]
  /\ task' = clearedTasks(Q, [q \in QIds |-> err], FALSE)
  /\ stats' = [q \in QIds |-> IF q \in Q
                  THEN [stats[q] EXCEPT !.totalFailed = @ + Len(tasks[q])] ELSE stats[q]]
  /\ UNCHANGED <<isProcessing, processingScheduled, microtasks>>

\* (variant) clear() that bumps the epoch and leaves the tasks in the list
clearEpochOnly(Q, rejectWith) ==
  LET err == clearError(rejectWith) IN
  /\ clearEpoch' = [q \in QIds |-> IF q \in Q THEN clearEpoch[q] + 1 ELSE clearEpoch[q]]
  /\ lastClearError' = [q \in QIds |-> IF q \in Q THEN err ELSE lastClearError[q]]
  /\ UNCHANGED <<tasks, task, isProcessing, processingScheduled, stats, microtasks>>

\* clear(rejectWith?) on every Queue object of the set Q: bump the epoch,
\* store the error, reject and remove every task still in the list.  The
\* task that is executing is not in the list and is left alone.
clear(Q, rejectWith) ==
  LET err == clearError(rejectWith) IN
  /\ clearEpoch' = [q \in QIds |-> IF q \in Q THEN clearEpoch[q] + 1 ELSE clearEpoch[q]]
  /\ lastClearError' = [q \in QIds |-> IF q \in Q THEN err ELSE lastClearError[q]]
  /\ tasks' = [q \in QIds |-> IF q \in Q THEN <<>> ELSE tasks[q]]
  /\ task' = [t \in TaskIds |->
       IF inList(t, Q)
         THEN [task[t] EXCEPT !.state = "rejected", !.error = err,
                              !.cutBy = Len(clearLog[task[t].queue]) + 1]
       ELSE IF task[t].queue \in Q /\ task[t].state = "executing"
         THEN [task[t] EXCEPT !.inFlightAtClear = TRUE]
       ELSE task[t]]
  /\ UNCHANGED <<isProcessing, processingScheduled, stats, microtasks>>

\* ------------------------------------------- QueueManager (queue-manager.ts)

\* number of Queue.clear() calls made so far on the Queue objects 1..n
RECURSIVE clearsUpTo(_)
clearsUpTo(n) == IF n = 0 THEN 0 ELSE Len(clearLog[n]) + clearsUpTo(n - 1)

\* execute(appId, task): getQueue(appId) creates the Queue on first use,
\* then q.add(task).
Execute(appId) ==
  /\ submitted < MaxTasks
  /\ queues[appId] # NoQueue \/ created < MaxQueues
  /\ LET q == IF queues[appId] # NoQueue THEN queues[appId] ELSE created + 1 IN
     /\ queues' = [queues EXCEPT ![appId] = q]
     /\ created' = IF queues[appId] # NoQueue THEN created ELSE created + 1
     /\ add(q, submitted + 1, appId)
  /\ submitted' = submitted + 1
  /\ callerActive' = TRUE
  /\ UNCHANGED clearLog

\* execute(appId, task) on the QueueManager that a second AppleRunner
\* constructed for itself: its own map, its own Queue objects
ExecuteSecond(appId) ==
  /\ submitted < MaxTasks
  /\ queues2[appId] # NoQueue \/ created < MaxQueues
  /\ LET q == IF queues2[appId] # NoQueue THEN queues2[appId] ELSE created + 1 IN
     /\ queues2' = [queues2 EXCEPT ![appId] = q]
     /\ created' = IF queues2[appId] # NoQueue THEN created ELSE created + 1
     /\ add(q, submitted + 1, appId)
  /\ submitted' = submitted + 1
  /\ callerActive' = TRUE
  /\ UNCHANGED <<queues, clearLog, fnResult, maxRetries, run, rstats, internalTurn, drain,
                 call>>

\* clearQueue(appId, rejectWith?)
ClearQueue(appId, rejectWith) ==
  /\ queues[appId] # NoQueue
  /\ clearsUpTo(MaxQueues) < MaxClears
  /\ clear({queues[appId]}, rejectWith)
  /\ clearLog' = [clearLog EXCEPT ![queues[appId]] = Append(@, rejectWith)]
  /\ callerActive' = TRUE
  /\ UNCHANGED <<queues, created, submitted>>

\* clearAll(rejectWith?)
ClearAll(rejectWith) ==
  LET Q == {queues[k] : k \in AppIds} \ {NoQueue} IN
  /\ Q # {}
  /\ clearsUpTo(MaxQueues) + Cardinality(Q) <= MaxClears
  /\ clear(Q, rejectWith)
  /\ clearLog' = [q \in QIds |-> IF q \in Q THEN Append(clearLog[q], rejectWith)
                                              ELSE clearLog[q]]
  /\ callerActive' = TRUE
  /\ UNCHANGED <<queues, created, submitted>>

\* the test both prune methods apply to a registered queue
prunable(q) == ~processing(q) /\ length(q) = 0

\* pruneQueue(appId)
PruneQueue(appId) ==
  /\ queues[appId] # NoQueue
  /\ queues' = [queues EXCEPT ![appId] = IF prunable(queues[appId]) THEN NoQueue ELSE @]
  /\ callerActive' = TRUE
  /\ UNCHANGED <<created, submitted, clearLog>>
  /\ UNCHANGED queueVars

\* pruneAll()
PruneAll ==
  /\ \E k \in AppIds : queues[k] # NoQueue
  /\ queues' = [k \in AppIds |->
       IF queues[k] # NoQueue /\ prunable(queues[k]) THEN NoQueue ELSE queues[k]]
  /\ callerActive' = TRUE
  /\ UNCHANGED <<created, submitted, clearLog>>
  /\ UNCHANGED queueVars

\* ------------------------------------------------------------- the runtime

\* The caller's synchronous turn ends (it returns to the event loop or awaits).
EndTurn ==
  /\ callerActive
  /\ callerActive' = FALSE
  /\ task' = [t \in TaskIds |-> [task[t] EXCEPT !.sync = FALSE]]
  /\ UNCHANGED <<queues, created, tasks, isProcessing, processingScheduled, clearEpoch,
                 lastClearError, stats, submitted, microtasks, clearLog>>

\* (variant) a start callback that leaves processingScheduled set
RunMicrotaskKeepsFlag ==
  /\ ~callerActive
  /\ microtasks # <<>>
  /\ LET q == Head(microtasks) IN
     /\ microtasks' = Tail(microtasks)
     /\ process(q)
  /\ UNCHANGED <<queues, created, clearEpoch, lastClearError, stats, submitted,
                 callerActive, clearLog, processingScheduled>>

\* The callback add() handed to queueMicrotask runs: it resets
\* processingScheduled and calls process().
RunMicrotask ==
  /\ ~callerActive
  /\ microtasks # <<>>
  /\ LET q == Head(microtasks) IN
     /\ microtasks' = Tail(microtasks)
     /\ processingScheduled' = [processingScheduled EXCEPT ![q] = FALSE]
     /\ process(q)
  /\ UNCHANGED <<queues, created, clearEpoch, lastClearError, stats, submitted,
                 callerActive, clearLog>>

\* (variant) a process() whose loop ends when a task function fails
TaskSettlesStops(t, ok) ==
  /\ ~callerActive
  /\ task[t].state = "executing"
  /\ LET q == task[t].queue
         settled == [task EXCEPT ![t].state = IF ok THEN "resolved" ELSE "rejected",
                                 ![t].error = IF ok THEN NoError ELSE TaskError]
         r == IF ok THEN processLoop(q, tasks[q], settled)
                    ELSE [tasks |-> tasks[q], task |-> settled, isProcessing |-> FALSE]
     IN /\ stats' = [stats EXCEPT ![q] =
                       IF ok THEN [@ EXCEPT !.totalProcessed = @ + 1]
                             ELSE [@ EXCEPT !.totalFailed = @ + 1]]
        /\ tasks' = [tasks EXCEPT ![q] = r.tasks]
        /\ task' = r.task
        /\ isProcessing' = [isProcessing EXCEPT ![q] = r.isProcessing]
  /\ UNCHANGED <<queues, created, processingScheduled, clearEpoch, lastClearError,
                 submitted, microtasks, callerActive, clearLog>>

\* The function of the executing task t finishes (ok: it fulfilled; else it
\* threw or rejected) and process() resumes after its await: it updates the
\* counters, settles the task and goes round the loop.
TaskSettles(t, ok) ==
  /\ ~callerActive
  /\ task[t].state = "executing"
  /\ LET q == task[t].queue
         settled == [task EXCEPT ![t].state = IF ok THEN "resolved" ELSE "rejected",
                                 ![t].error = IF ok THEN NoError ELSE TaskError]
         r == processLoop(q, tasks[q], settled)
     IN /\ stats' = [stats EXCEPT ![q] =
                       IF ok THEN [@ EXCEPT !.totalProcessed = @ + 1]
                             ELSE [@ EXCEPT !.totalFailed = @ + 1]]
        /\ tasks' = [tasks EXCEPT ![q] = r.tasks]
        /\ task' = r.task
        /\ isProcessing' = [isProcessing EXCEPT ![q] = r.isProcessing]
  /\ UNCHANGED <<queues, created, processingScheduled, clearEpoch, lastClearError,
                 submitted, microtasks, callerActive, clearLog>>

\* --------------------------------------------- marshaller (marshaller.ts)

\* (variant) asStringLiteral() without its size check
asStringLiteralUnchecked(bytes) == FALSE

\* asStringLiteral(str) throws: str is not empty and larger than STRING_ARG_KB
asStringLiteralThrows(bytes) == bytes # 0 /\ bytes > STRING_ARG_KB * 1024

\* asListLiteral(arr) throws: too many items, or an item that is too large
asListLiteralThrows(items, bytes) ==
  items > ARRAY_ITEMS \/ (items > 0 /\ asStringLiteralThrows(bytes))

\* validateJsCode(code, maxKb) throws
validateJsCodeThrows(bytes, maxKb) == bytes > maxKb * 1024

\* marshalParam(): the message of the Error it throws, or NoError.  A plain
\* object is turned into JSON text without any size check.
marshalParam(p) ==
  IF p.js
    THEN IF validateJsCodeThrows(p.bytes, JS_CODE_KB)
           THEN "JavaScript code exceeds maximum size"
         ELSE IF asStringLiteralThrows(p.bytes)
           THEN "String argument exceeds maximum size"
         ELSE NoError
  ELSE IF p.type = "string"
    THEN IF asStringLiteralThrows(p.bytes)
           THEN "String argument exceeds maximum size"
         ELSE NoError
  ELSE IF p.type = "array"
    THEN IF p.items > ARRAY_ITEMS
           THEN "Array exceeds maximum length"
         ELSE IF asListLiteralThrows(p.items, p.bytes)
           THEN "String argument exceeds maximum size"
         ELSE NoError
  ELSE NoError

\* ------------------------------------------------ errors (errors/factory.ts)

\* createErrorFromCode(): the error of an ERR envelope
createErrorFromCode(out) ==
  IF out = "ERR_TIMEOUT"
  THEN Err("TimeoutAppleEventError", "AppleScript timed out waiting for Apple Event", Absent)
  ELSE Err("ScriptError", "script error", Absent)

\* createPublicErrorFromUnknown(e, ctx): the public error of a thrown value;
\* ctxTimeout is ctx.controllerTimeoutMs
createPublicErrorFromUnknown(e, ctxTimeout) ==
  CASE e = "InputValidationError" -> Err("InputValidationError", "Input validation failed", Absent)
    [] e = "OutputValidationError" -> Err("OutputValidationError", "Output validation failed", Absent)
    [] e = "ProtocolParseError" -> Err("InvalidActionCodeError", "Invalid action code", Absent)
    [] e = "ETIMEDOUT" -> Err("TimeoutOSAScriptError", "osascript timed out",
                              IF ctxTimeout # Absent THEN ctxTimeout ELSE 0)
    [] e = "EXEC_FAIL" -> Err("ScriptError", "osascript execution failed", Absent)
    [] OTHER -> Err("ScriptError", e, Absent)

\* ------------------------------------------ retry policy (retry-policy.ts)

\* (variant) a policy for which every error is retriable
isRetriableAlways(error) == TRUE

\* isRetriableError(): the cause is one of the two timeout errors
isRetriableError(error) ==
  error.name = "TimeoutAppleEventError" \/ error.name = "TimeoutOSAScriptError"

\* (variant) the retry decision without the bound
shouldRetryUnbounded(error, retryCount) == isRetriableError(error)

\* const shouldRetry = isRetriableError(res.error) && retryCount < maxRetries
shouldRetry(error, retryCount) == isRetriableError(error) /\ retryCount < maxRetries

\* ------------------------------------------------- AppleRunner (runner.ts)

\* the fallback result after the retry loop
UnknownFailure == [ok |-> FALSE, error |-> Err("none", "Unknown error", Absent)]

\* ScriptBuildStep: options?.controllerTimeoutMs ?? config.defaultControllerTimeoutMs
controllerTimeoutMs(inp) ==
  IF inp.controllerTimeoutMs # Absent THEN inp.controllerTimeoutMs ELSE CONTROLLER_MS

\* what executeOperation() throws before it reaches queueManager.execute():
\* 1) validateInputIfNeeded, 2) buildScriptContext, 3) the debug hook
\* (h: the hooks that throw when they are called)
throwsBeforeExecute(inp, h) ==
  IF ~inp.valid THEN "InputValidationError"
  ELSE IF marshalParam(inp.param) # NoError THEN marshalParam(inp.param)
  ELSE IF "debug" \in h THEN "debug hook failed"
  ELSE NoError

\* (variant) executeOperation() without its try/catch: what is thrown leaves run()
catchBlockRethrow(rec, e, h) ==
  [rec EXCEPT !.state = "rejected", !.hookThrew = @ \/ ("onError" \in h)]

\* catch (e) of executeOperation(): convert e, call onError, return the
\* failure.  An onError that throws here makes executeOperation() reject.
\* (onResultCalls, onErrorCalls: history, the hook calls of the attempt)
catchBlock(rec, e, h) ==
  IF "onError" \in h
  THEN [rec EXCEPT !.state = "rejected", !.hookThrew = TRUE, !.onErrorCalls = @ + 1]
  ELSE [rec EXCEPT !.state = "returned", !.onErrorCalls = @ + 1,
                   !.res = [ok |-> FALSE, error |-> createPublicErrorFromUnknown(e, Absent)]]

\* executeOperation() after queueManager.execute() settled for task t: decode
\* the output, post-process (post: what post-processing does), call the hooks
\* (opOk: history, what the operation itself came to in this attempt)
afterExecute(rec, t, post, h) ==
  IF task[t].state = "rejected"
    THEN catchBlock([rec EXCEPT !.opOk = "fail"],
                    IF task[t].error = TaskError THEN fnResult[t] ELSE task[t].error, h)
  ELSE IF fnResult[t] = "OK"
    THEN IF post # "pass"
           THEN catchBlock([rec EXCEPT !.opOk = "fail"], post, h)
         ELSE IF "onResult" \in h
           THEN catchBlock([rec EXCEPT !.hookThrew = TRUE, !.opOk = "ok",
                                       !.onResultCalls = @ + 1],
                           "onResult hook failed", h)
         ELSE [rec EXCEPT !.state = "returned", !.opOk = "ok", !.onResultCalls = @ + 1,
                          !.res = [ok |-> TRUE, error |-> NoErr]]
  ELSE IF "onError" \in h
    THEN catchBlock([rec EXCEPT !.hookThrew = TRUE, !.opOk = "fail", !.onErrorCalls = @ + 1],
                    "onError hook failed", h)
  ELSE [rec EXCEPT !.state = "returned", !.opOk = "fail", !.onErrorCalls = @ + 1,
                   !.res = [ok |-> FALSE, error |-> createErrorFromCode(fnResult[t])]]

\* the body of run()'s while loop after executeOperation() returned rec.res
loopStep(rec) ==
  IF rec.state # "returned" THEN rec
  ELSE IF rec.res.ok
    THEN [rec EXCEPT !.state = "done", !.result = rec.res, !.log = Append(@, rec.res)]
  ELSE IF shouldRetry(rec.res.error, rec.retryCount)
    THEN [rec EXCEPT !.state = "delaying", !.retryCount = @ + 1, !.log = Append(@, rec.res)]
  ELSE [rec EXCEPT !.state = "done", !.result = rec.res, !.log = Append(@, rec.res)]

\* statsMgr.onSuccess / onFailure / onRetryAttempt for the step that led to new
statsStep(new) ==
  IF new.state = "done" /\ new.result.ok
    THEN [rstats EXCEPT !.successfulOperations = @ + 1]
  ELSE IF new.state = "done"
    THEN [rstats EXCEPT !.failedOperations = @ + 1]
  ELSE IF new.state = "delaying"
    THEN [rstats EXCEPT !.totalRetries = @ + 1]
  ELSE rstats

\* executeOperation() up to its await: the steps before the queue, then
\* queueManager.execute(appId, ...) which adds the task
startAttempt(r, rec, h) ==
  LET inp == rec.input
      e == throwsBeforeExecute(inp, h)
      counted == [rec EXCEPT !.attempts = @ + 1,
                             !.validations = @ + 1,
                             !.builds = IF inp.valid THEN @ + 1 ELSE @,
                             !.hookThrew = @ \/ (e = "debug hook failed"),
                             !.onResultCalls = 0, !.onErrorCalls = 0, !.opOk = "none"]
  IN IF e = NoError
     THEN /\ Execute(RunnerAppId)
          /\ run' = [run EXCEPT ![r] = [counted EXCEPT !.state = "waiting",
                                                       !.task = submitted + 1,
                                                       !.enqueued = @ + 1]]
     ELSE /\ run' = [run EXCEPT ![r] =
                       catchBlock([counted EXCEPT !.opOk = IF e = "debug hook failed"
                                                           THEN "none" ELSE "fail"], e, h)]
          /\ callerActive' = TRUE
          /\ UNCHANGED managerVars

\* run(operation, input, options), called by the caller, up to its first await
Run(r, inp, h) ==
  /\ ~internalTurn
  /\ run[r].state = "idle"
  /\ \A s \in RunIds : s < r => run[s].state # "idle"
  /\ rstats' = [rstats EXCEPT !.totalOperations = @ + 1]
  /\ IF 0 <= maxRetries
     THEN startAttempt(r, [NoRun EXCEPT !.input = inp], h)
     ELSE /\ run' = [run EXCEPT ![r] = [NoRun EXCEPT !.input = inp, !.state = "done",
                                                     !.result = UnknownFailure]]
          /\ callerActive' = TRUE
          /\ UNCHANGED managerVars
  /\ UNCHANGED <<fnResult, maxRetries, internalTurn, drain, call, queues2>>

\* run() resumes after an executeOperation() that returned without awaiting
RunContinues(r) ==
  /\ ~callerActive
  /\ run[r].state = "returned"
  /\ LET new == loopStep(run[r]) IN
     /\ run' = [run EXCEPT ![r] = new]
     /\ rstats' = statsStep(new)
  /\ UNCHANGED <<managerVars, callerActive, fnResult, maxRetries, internalTurn, drain,
                 call, queues2>>

\* the task of the attempt has settled: executeOperation() resumes and
\* returns, then run() resumes
AttemptResumes(r, post, h) ==
  /\ ~callerActive
  /\ run[r].state = "waiting"
  /\ task[run[r].task].state \in {"resolved", "rejected"}
  /\ LET new == loopStep(afterExecute(run[r], run[r].task, post, h)) IN
     /\ run' = [run EXCEPT ![r] = new]
     /\ rstats' = statsStep(new)
  /\ UNCHANGED <<managerVars, callerActive, fnResult, maxRetries, internalTurn, drain,
                 call, queues2>>

\* await delay(retryDelayMs) is over: the loop tests its condition and makes
\* the next attempt, in a turn of its own
RetryStarts(r, h) ==
  /\ ~callerActive
  /\ run[r].state = "delaying"
  /\ IF run[r].retryCount <= maxRetries
     THEN startAttempt(r, run[r], h)
     ELSE /\ run' = [run EXCEPT ![r].state = "done", ![r].result = UnknownFailure]
          /\ callerActive' = TRUE
          /\ UNCHANGED managerVars
  /\ internalTurn' = TRUE
  /\ UNCHANGED <<fnResult, maxRetries, rstats, drain, call, queues2>>

\* the osascript process of the executing task t ends with outcome out
ScriptEnds(t, out) ==
  /\ TaskSettles(t, out \in {"OK", "ERR_TIMEOUT", "ERR_OTHER"})
  /\ fnResult' = [fnResult EXCEPT ![t] = out]
  /\ UNCHANGED <<runnerVars, drain, call, queues2>>

\* runner.clearQueue()
ClearRunner ==
  /\ ~internalTurn
  /\ ClearQueue(RunnerAppId, "undefined")
  /\ UNCHANGED extVars

\* the turn that is running ends
EndTurnRunner ==
  /\ EndTurn
  /\ internalTurn' = FALSE
  /\ UNCHANGED <<fnResult, maxRetries, run, rstats, drain, call, queues2>>

\* the deferred start of a queue, in the runner's registry
StartRunner == RunMicrotask /\ UNCHANGED extVars

\* ----------------------------------------------------- Queue.drain (queue.ts)

\* (variant) a drain() that looks at the pending list only
drainWaitsListOnly(q) == Len(tasks[q]) > 0

\* the condition of drain()'s loop: isProcessing || tasks.length > 0
drainWaits(q) == isProcessing[q] \/ Len(tasks[q]) > 0

\* the tasks of Queue object q that have not settled yet
unsettledOf(q) ==
  {t \in TaskIds : task[t].queue = q /\ task[t].state \in {"pending", "executing"}}

\* drain() is called on the Queue object of appId: the first test of the loop
DrainCall(d, appId) ==
  /\ drain[d].state = "none"
  /\ queues[appId] # NoQueue
  /\ LET q == queues[appId] IN
     drain' = [drain EXCEPT ![d] =
                 [state |-> IF drainWaits(q) THEN "polling" ELSE "done",
                  queue |-> q,
                  before |-> {t \in TaskIds : task[t].queue = q /\ task[t].state # "unused"},
                  polled |-> drainWaits(q),
                  heldBy |-> unsettledOf(q)]]
  /\ callerActive' = TRUE
  /\ UNCHANGED <<managerVars, fnResult, runnerVars, call, queues2>>

\* the 10 ms timer of drain() fires and the loop finds the queue idle and
\* empty (a poll that finds it busy changes nothing)
DrainPoll(d) ==
  /\ ~callerActive
  /\ microtasks = <<>>
  /\ drain[d].state = "polling"
  /\ ~drainWaits(drain[d].queue)
  /\ drain' = [drain EXCEPT ![d].state = "done"]
  /\ UNCHANGED <<managerVars, callerActive, fnResult, runnerVars, call, queues2>>

\* the 10 ms timer of drain() fires and the loop finds the queue processing
\* or its list not empty: it sets the timer again (heldBy: the unsettled
\* tasks of the queue at this test of the loop condition)
DrainPollBusy(d) ==
  /\ ~callerActive
  /\ microtasks = <<>>
  /\ drain[d].state = "polling"
  /\ drainWaits(drain[d].queue)
  /\ drain' = [drain EXCEPT ![d].heldBy = unsettledOf(drain[d].queue)]
  /\ UNCHANGED <<managerVars, callerActive, fnResult, runnerVars, call, queues2>>

\* ------------------------------------ QueueManager.drainAll (queue-manager.ts)

\* the continuation of drainAll() number d, as an entry of the microtask queue
DrainTick(d) == MaxQueues + d

\* the entry that follows Queue object q in the iteration of the queues Map
\* (0: the first entry).  A Map iterates in insertion order, which is the
\* order in which the registered Queue objects were constructed, and it skips
\* entries deleted before they are reached.
nextQueue(q) ==
  LET later == {queues[k] : k \in AppIds} \cap {n \in QIds : n > q}
  IN IF later = {} THEN NoQueue ELSE CHOOSE n \in later : \A o \in later : n <= o

\* the for loop of drainAll() arrives at the entry after Queue object q: at
\* the end of the Map drainAll() is done; else it calls drain() on the entry,
\* which either starts polling or returns at once, and awaits it
drainAllStep(rec, q) ==
  LET n == nextQueue(q) IN
  IF n = NoQueue THEN [rec EXCEPT !.state = "done", !.queue = n]
  ELSE IF drainWaits(n) THEN [rec EXCEPT !.state = "polling", !.queue = n, !.polled = TRUE]
  ELSE [rec EXCEPT !.state = "resuming", !.queue = n]

\* drainAll() is called (before: every task submitted so far)
DrainAllCall(d) ==
  /\ drain[d].state = "none"
  /\ LET new == drainAllStep([NoDrain EXCEPT !.before =
                                 {t \in TaskIds : task[t].state # "unused"}], 0)
     IN /\ drain' = [drain EXCEPT ![d] = new]
        /\ microtasks' = IF new.state = "resuming"
                          THEN Append(microtasks, DrainTick(d)) ELSE microtasks
  /\ callerActive' = TRUE
  /\ UNCHANGED <<queues, created, tasks, isProcessing, processingScheduled, clearEpoch,
                 lastClearError, stats, task, submitted, clearLog, fnResult, runnerVars, call, queues2>>

\* drainAll() resumes after awaiting a drain() that returned at once
DrainAllResumes(d) ==
  /\ ~callerActive
  /\ microtasks # <<>> /\ Head(microtasks) = DrainTick(d)
  /\ drain[d].state = "resuming"
  /\ LET new == drainAllStep(drain[d], drain[d].queue)
     IN /\ drain' = [drain EXCEPT ![d] = new]
        /\ microtasks' = IF new.state = "resuming"
                          THEN Append(Tail(microtasks), DrainTick(d)) ELSE Tail(microtasks)
  /\ UNCHANGED <<queues, created, tasks, isProcessing, processingScheduled, clearEpoch,
                 lastClearError, stats, task, submitted, clearLog, callerActive,
                 fnResult, runnerVars, call, queues2>>

\* the 10 ms timer of the drain() that drainAll() awaits fires and finds the
\* queue idle and empty: drain() returns and drainAll() goes on
DrainAllPoll(d) ==
  /\ ~callerActive
  /\ microtasks = <<>>
  /\ drain[d].state = "polling"
  /\ ~drainWaits(drain[d].queue)
  /\ LET new == drainAllStep(drain[d], drain[d].queue)
     IN /\ drain' = [drain EXCEPT ![d] = new]
        /\ microtasks' = IF new.state = "resuming" THEN <<DrainTick(d)>> ELSE microtasks
  /\ UNCHANGED <<queues, created, tasks, isProcessing, processingScheduled, clearEpoch,
                 lastClearError, stats, task, submitted, clearLog, callerActive,
                 fnResult, runnerVars, call, queues2>>

\* the function of the executing task t throws the error e
TaskThrows(t, e) ==
  /\ TaskSettles(t, FALSE)
  /\ fnResult' = [fnResult EXCEPT ![t] = e]
  /\ UNCHANGED <<runnerVars, drain, call, queues2>>

\* ---------------------------------- timeouts (runner.ts, ScriptBuildStep)

\* everything but the call of a pure function
pureFrame == <<managerVars, callerActive, fnResult, runnerVars, drain, queues2>>

\* the timeout settings of one run(): RunOptions.timeoutSec and
\* .controllerTimeoutMs, and RunnerConfig.timeoutByKind[kind],
\* .defaultTimeoutSec and .defaultControllerTimeoutMs of the runner (Absent:
\* not given).  The values of the levels differ, so a result names its level.
TimeoutSettings ==
  [optTimeoutSec : {Absent, 5, 30},
   optControllerTimeoutMs : {Absent, 10000, 35000},
   timeoutByKind : {Absent, 8, 20},
   defaultTimeoutSec : {Absent, 25},
   defaultControllerTimeoutMs : {Absent, 25000}]

\* the constructor of AppleRunner: destructuring defaults of the two timeouts
constructorConfig(s) ==
  [defaultTimeoutSec |->
     IF s.defaultTimeoutSec # Absent THEN s.defaultTimeoutSec ELSE APPLESCRIPT_SEC,
   defaultControllerTimeoutMs |->
     IF s.defaultControllerTimeoutMs # Absent THEN s.defaultControllerTimeoutMs
                                              ELSE CONTROLLER_MS,
   timeoutByKind |-> s.timeoutByKind]

\* toProcessingConfig(cfg): cfg.defaultTimeoutSec ?? 30,
\* cfg.defaultControllerTimeoutMs ?? 5000
toProcessingConfig(cfg) ==
  [defaultTimeoutSec |->
     IF cfg.defaultTimeoutSec # Absent THEN cfg.defaultTimeoutSec ELSE 30,
   defaultControllerTimeoutMs |->
     IF cfg.defaultControllerTimeoutMs # Absent THEN cfg.defaultControllerTimeoutMs ELSE 5000,
   timeoutByKind |-> cfg.timeoutByKind]

\* (variant) a resolution in which the per-kind value does not count
resolveTimeoutSecNoKind(opt, cfg) ==
  IF opt # Absent THEN opt ELSE cfg.defaultTimeoutSec

\* options?.timeoutSec ?? config.timeoutByKind[kind] ?? config.defaultTimeoutSec
resolveTimeoutSec(opt, cfg) ==
  IF opt # Absent THEN opt
  ELSE IF cfg.timeoutByKind # Absent THEN cfg.timeoutByKind
  ELSE cfg.defaultTimeoutSec

\* options?.controllerTimeoutMs ?? config.defaultControllerTimeoutMs
resolveControllerTimeoutMs(opt, cfg) ==
  IF opt # Absent THEN opt ELSE cfg.defaultControllerTimeoutMs

\* a runner is constructed with the settings of the call and
\* buildScriptContext() resolves the two timeouts of an attempt
BuildScriptContext ==
  /\ call.fn = "buildScriptContext" /\ ~call.done
  /\ LET cfg == toProcessingConfig(constructorConfig(call.settings)) IN
     call' = [call EXCEPT
       !.done = TRUE,
       !.timeoutSec = resolveTimeoutSec(call.settings.optTimeoutSec, cfg),
       !.controllerTimeoutMs =
          resolveControllerTimeoutMs(call.settings.optControllerTimeoutMs, cfg)]
  /\ UNCHANGED pureFrame

\* ------------------------------- marshaller: the literals (marshaller.ts)

\* Text is a sequence of characters.  DQ is the double quote and BS the
\* backslash; "quote" stands for the five letters of that word.
DQ == "\""
BS == "\\"
QuoteWord == "quote"
Chars == {"a", DQ, BS, " ", "&", QuoteWord, ",", "}"}
ItemChars == {"a", DQ, BS, ","}

\* every text of at most n characters of the set C
RECURSIVE TextsUpTo(_, _)
TextsUpTo(C, n) ==
  IF n = 0 THEN {<<>>}
  ELSE LET shorter == TextsUpTo(C, n - 1)
       IN shorter \cup {Append(t, c) : t \in shorter, c \in C}

\* the values marshalled: strings, strings with the js hint, arrays of
\* up to two strings, and plain objects {k: string}
MarshalValues ==
  LET strings == TextsUpTo(Chars, MaxLen)
      items == TextsUpTo(ItemChars, MaxLen - 1)
  IN  {[type |-> "string", js |-> FALSE, value |-> v] : v \in strings}
      \cup {[type |-> "string", js |-> TRUE, value |-> v] : v \in strings}
      \cup {[type |-> "array", js |-> FALSE, value |-> <<>>]}
      \cup {[type |-> "array", js |-> FALSE, value |-> <<v>>] : v \in items}
      \cup {[type |-> "array", js |-> FALSE, value |-> <<v, w>>] : v \in items, w \in items}
      \cup {[type |-> "object", js |-> FALSE, value |-> v] : v \in items}

\* str.replace(/\\/g, "\\\\")
RECURSIVE escapeBackslashes(_)
escapeBackslashes(str) ==
  IF str = <<>> THEN <<>>
  ELSE (IF Head(str) = BS THEN <<BS, BS>> ELSE <<Head(str)>>) \o escapeBackslashes(Tail(str))

\* str.replace(/"/g, '\\"')
RECURSIVE escapeQuotes(_)
escapeQuotes(str) ==
  IF str = <<>> THEN <<>>
  ELSE (IF Head(str) = DQ THEN <<BS, DQ>> ELSE <<Head(str)>>) \o escapeQuotes(Tail(str))

\* str.split('"')
RECURSIVE splitAtQuotes(_)
splitAtQuotes(str) ==
  IF str = <<>> THEN << <<>> >>
  ELSE LET r == splitAtQuotes(Tail(str)) IN
       IF Head(str) = DQ THEN << <<>> >> \o r
       ELSE << <<Head(str)>> \o Head(r) >> \o Tail(r)

\* parts.map((p) => `"${p}"`).join(" & quote & ")
RECURSIVE joinWithQuote(_)
joinWithQuote(parts) ==
  IF Len(parts) = 1 THEN <<DQ>> \o parts[1] \o <<DQ>>
  ELSE <<DQ>> \o parts[1] \o <<DQ>> \o <<" ", "&", " ", QuoteWord, " ", "&", " ">>
       \o joinWithQuote(Tail(parts))

\* (variant) asStringLiteral() that puts the text between quotes as it is
asStringLiteralRaw(str) == <<DQ>> \o str \o <<DQ>>

\* (variant) asStringLiteral() that escapes quotes inside the literal
asStringLiteralEscaping(str) == <<DQ>> \o escapeQuotes(escapeBackslashes(str)) \o <<DQ>>

\* asStringLiteral(str) for a string within the size limit
asStringLiteral(str) ==
  IF str = <<>> THEN <<DQ, DQ>>
  ELSE IF \A i \in 1..Len(str) : str[i] # DQ
    THEN <<DQ>> \o escapeBackslashes(str) \o <<DQ>>
  ELSE LET parts == splitAtQuotes(str) IN
       joinWithQuote([i \in 1..Len(parts) |-> escapeBackslashes(parts[i])])

\* items.join(", ")
RECURSIVE joinItems(_)
joinItems(items) ==
  IF items = <<>> THEN <<>>
  ELSE IF Len(items) = 1 THEN items[1]
  ELSE items[1] \o <<",", " ">> \o joinItems(Tail(items))

\* asListLiteral(arr) for an array of strings within the limits
asListLiteral(arr) ==
  <<"{">> \o joinItems([i \in 1..Len(arr) |-> asStringLiteral(arr[i])]) \o <<"}">>

\* the escapes JSON.stringify applies inside a string
RECURSIVE jsonEscape(_)
jsonEscape(str) ==
  IF str = <<>> THEN <<>>
  ELSE (IF Head(str) \in {DQ, BS} THEN <<BS, Head(str)>> ELSE <<Head(str)>>)
       \o jsonEscape(Tail(str))

\* JSON.stringify({k: v}) for a string v
jsonStringify(v) == <<"{", DQ, "k", DQ, ":", DQ>> \o jsonEscape(v) \o <<DQ, "}">>

\* marshalParam(paramName, value, hint).literal
marshalLiteral(p) ==
  IF p.js THEN asStringLiteral(p.value)
  ELSE IF p.type = "string" THEN asStringLiteral(p.value)
  ELSE IF p.type = "array" THEN asListLiteral(p.value)
  ELSE <<DQ>> \o escapeQuotes(escapeBackslashes(jsonStringify(p.value))) \o <<DQ>>

\* marshalParam() is called with the value of the call
MarshalParam ==
  /\ call.fn = "marshalParam" /\ ~call.done
  /\ call' = [call EXCEPT !.done = TRUE, !.literal = marshalLiteral(call.param)]
  /\ UNCHANGED pureFrame

\* ---- how AppleScript reads a literal (header comment of asStringLiteral):
\* a string runs from a double quote to the next double quote that is not
\* escaped, a backslash escapes the character after it, & concatenates, and
\* quote is a constant holding one double quote

\* a literal that is not one well-formed expression
Broken == [ok |-> FALSE, value |-> <<>>, rest |-> <<>>]

\* the body of a string literal, after its opening quote
RECURSIVE readString(_, _)
readString(text, acc) ==
  IF text = <<>> THEN Broken
  ELSE IF Head(text) = DQ THEN [ok |-> TRUE, value |-> acc, rest |-> Tail(text)]
  ELSE IF Head(text) = BS
    THEN IF Len(text) >= 2 /\ text[2] \in {DQ, BS}
         THEN readString(SubSeq(text, 3, Len(text)), Append(acc, text[2]))
         ELSE Broken
  ELSE readString(Tail(text), Append(acc, Head(text)))

\* an expression: operands joined by " & "; its value and the text after it
RECURSIVE readExpression(_, _)
readExpression(text, acc) ==
  LET operand == IF text = <<>> THEN Broken
                 ELSE IF Head(text) = DQ THEN readString(Tail(text), <<>>)
                 ELSE IF Head(text) = QuoteWord
                   THEN [ok |-> TRUE, value |-> <<DQ>>, rest |-> Tail(text)]
                 ELSE Broken
  IN IF ~operand.ok THEN Broken
     ELSE IF Len(operand.rest) >= 3 /\ SubSeq(operand.rest, 1, 3) = <<" ", "&", " ">>
       THEN readExpression(SubSeq(operand.rest, 4, Len(operand.rest)), acc \o operand.value)
     ELSE [ok |-> TRUE, value |-> acc \o operand.value, rest |-> operand.rest]

\* the items of a list literal, after its opening brace
RECURSIVE readItems(_, _)
readItems(text, acc) ==
  LET item == readExpression(text, <<>>) IN
  IF ~item.ok THEN Broken
  ELSE IF item.rest = <<"}">> THEN [ok |-> TRUE, value |-> Append(acc, item.value), rest |-> <<>>]
  ELSE IF Len(item.rest) >= 2 /\ SubSeq(item.rest, 1, 2) = <<",", " ">>
    THEN readItems(SubSeq(item.rest, 3, Len(item.rest)), Append(acc, item.value))
  ELSE Broken

\* the value the script gets when the literal is assigned to a variable
evaluate(literal) ==
  IF literal = <<"{", "}">> THEN [ok |-> TRUE, value |-> <<>>, rest |-> <<>>]
  ELSE IF literal # <<>> /\ Head(literal) = "{" THEN readItems(Tail(literal), <<>>)
  ELSE LET r == readExpression(literal, <<>>) IN IF r.rest = <<>> THEN r ELSE Broken

\* ------------------------------------------ protocol codec (protocol.ts)

\* the three separators; "OK" and "ERR" stand for the letters of the two
\* status words, " " for a whitespace character
GS == "GS"
RS == "RS"
US == "US"
OutChars == {"OK", "ERR", GS, "1", "-", "a", " "}
FieldTexts == {<<>>, <<"a">>, <<"b">>}

\* the rows a script may return: up to two rows of up to MaxFields fields
RowsValues ==
  LET rows == TextsUpTo(FieldTexts, MaxFields)
  IN {<<>>} \cup {<<r>> : r \in rows} \cup {<<r, q>> : r \in rows, q \in rows}

\* text.split(sep)
RECURSIVE split(_, _)
split(text, sep) ==
  IF text = <<>> THEN << <<>> >>
  ELSE LET r == split(Tail(text), sep) IN
       IF Head(text) = sep THEN << <<>> >> \o r
       ELSE << <<Head(text)>> \o Head(r) >> \o Tail(r)

\* parts.join(sep)
RECURSIVE join(_, _)
join(parts, sep) ==
  IF parts = <<>> THEN <<>>
  ELSE IF Len(parts) = 1 THEN parts[1]
  ELSE parts[1] \o <<sep>> \o join(Tail(parts), sep)

\* text.trim()
RECURSIVE trimStart(_)
trimStart(text) ==
  IF text # <<>> /\ Head(text) = " " THEN trimStart(Tail(text)) ELSE text

RECURSIVE trimEnd(_)
trimEnd(text) ==
  IF text # <<>> /\ text[Len(text)] = " " THEN trimEnd(SubSeq(text, 1, Len(text) - 1))
  ELSE text

trim(text) == trimEnd(trimStart(text))

\* the value of a text of decimal digits
RECURSIVE digitsValue(_)
digitsValue(text) ==
  IF text = <<>> THEN 0
  ELSE 10 * digitsValue(SubSeq(text, 1, Len(text) - 1)) + (IF text[Len(text)] = "1" THEN 1 ELSE 0)

\* text is one or more decimal digits
isDigits(text) == text # <<>> /\ \A i \in 1..Len(text) : text[i] = "1"

\* Number(text) on the characters above: white space around the text is
\* ignored, the empty text is 0, an optionally signed run of digits is its
\* value, and everything else is NaN (finite: FALSE)
Number(text) ==
  LET t == trim(text) IN
  IF t = <<>> THEN [finite |-> TRUE, value |-> 0]
  ELSE IF isDigits(t) THEN [finite |-> TRUE, value |-> digitsValue(t)]
  ELSE IF Head(t) = "-" /\ isDigits(Tail(t))
    THEN [finite |-> TRUE, value |-> 0 - digitsValue(Tail(t))]
  ELSE [finite |-> FALSE, value |-> 0]

\* a ProtocolResponse
Response(ok, payload, code, message) ==
  [ok |-> ok, payload |-> payload, code |-> code, message |-> message]

\* (variant) a payload that is part 2 alone
okPayloadFirstPart(parts) == parts[2]

\* parts.slice(1).join(GS)
okPayload(parts) == join(Tail(parts), GS)

\* parseProtocolResponse(raw) for raw.stdout = stdout
parseProtocolResponse(stdout) ==
  LET output == trim(stdout)
      parts == split(output, GS)
  IN IF output = <<>>
       THEN Response(FALSE, <<>>, -1, <<"Empty response from AppleScript">>)
     ELSE IF Len(parts) < 2
       THEN Response(FALSE, <<>>, -1, <<"Malformed response from AppleScript">>)
     ELSE IF parts[1] = <<"OK">>
       THEN Response(TRUE, okPayload(parts), 0, <<>>)
     ELSE IF parts[1] = <<"ERR">>
       THEN LET code == Number(parts[2])
                message == join(Tail(Tail(parts)), GS)
            IN Response(FALSE, <<>>, IF code.finite THEN code.value ELSE -1,
                        IF message = <<>> THEN <<"Unknown error">> ELSE message)
     ELSE Response(FALSE, <<>>, -1, <<"Unknown status prefix: ">> \o parts[1])

\* parseScalar(payload): a payload that is a string is returned as it is
parseScalar(payload) == payload

\* fields.pop() while the last field is empty
RECURSIVE popEmptyFields(_)
popEmptyFields(fields) ==
  IF fields # <<>> /\ fields[Len(fields)] = <<>>
  THEN popEmptyFields(SubSeq(fields, 1, Len(fields) - 1))
  ELSE fields

\* (variant) a row decoder that drops every empty field
parseRowDropEmpty(row) == SelectSeq(split(row, US), LAMBDA field : field # <<>>)

\* the callback of rows.map() in parseRows(): a row that ends with its only
\* US is one cell; else split on US and drop the trailing empty fields
parseRow(row) ==
  IF row[Len(row)] = US /\ \A i \in 1..(Len(row) - 1) : row[i] # US
  THEN <<row>>
  ELSE popEmptyFields(split(row, US))

\* parseRows(payload)
parseRows(payload) ==
  IF payload = <<>> THEN <<>>
  ELSE LET rows == SelectSeq(split(payload, RS), LAMBDA row : row # <<>>)
       IN [i \in 1..Len(rows) |-> parseRow(rows[i])]

\* the rows wrapper of the generated script: the fields of a row joined by
\* US, the rows joined by RS
encodeRows(matrix) ==
  join([i \in 1..Len(matrix) |-> join(matrix[i], US)], RS)

\* the output of the osascript process is decoded, as a scalar when it is OK
ParseProtocolResponse ==
  /\ call.fn = "parseProtocolResponse" /\ ~call.done
  /\ LET response == parseProtocolResponse(call.stdout) IN
     call' = [call EXCEPT !.done = TRUE,
                          !.response = response,
                          !.scalar = IF response.ok THEN parseScalar(response.payload)
                                                    ELSE <<>>]
  /\ UNCHANGED pureFrame

\* the rows the script returned are encoded by the wrapper and decoded
ParseRows ==
  /\ call.fn = "parseRows" /\ ~call.done
  /\ call' = [call EXCEPT !.done = TRUE,
                          !.payload = encodeRows(call.matrix),
                          !.rows = parseRows(encodeRows(call.matrix))]
  /\ UNCHANGED pureFrame

\* ------------------------------------------------------- specifications

\* the registry with all its operations
Next ==
  \/ \E k \in AppIds : Execute(k) /\ UNCHANGED extVars
  \/ \E k \in AppIds, e \in ClearArgs : ClearQueue(k, e) /\ UNCHANGED extVars
  \/ \E e \in ClearArgs : ClearAll(e) /\ UNCHANGED extVars
  \/ \E k \in AppIds : PruneQueue(k) /\ UNCHANGED extVars
  \/ PruneAll /\ UNCHANGED extVars
  \/ EndTurn /\ UNCHANGED extVars
  \/ RunMicrotask /\ UNCHANGED extVars
  \/ \E t \in TaskIds, ok \in BOOLEAN : TaskSettles(t, ok) /\ UNCHANGED extVars

Spec == Init /\ [][Next]_vars

\* One Queue object on its own, as a caller of the Queue class uses it (and as
\* the registry uses it for a single appId): add(), clear(), the deferred
\* start and the task completions.
NextOneQueue ==
  \/ Execute("a") /\ UNCHANGED extVars
  \/ \E e \in ClearArgs : ClearQueue("a", e) /\ UNCHANGED extVars
  \/ EndTurn /\ UNCHANGED extVars
  \/ RunMicrotask /\ UNCHANGED extVars
  \/ \E t \in TaskIds, ok \in BOOLEAN : TaskSettles(t, ok) /\ UNCHANGED extVars

SpecOneQueue == Init /\ [][NextOneQueue]_vars

\* The runtime ends every turn and runs every scheduled start, and every
\* task function that was invoked finishes
FairOneQueue ==
  /\ WF_vars(EndTurn /\ UNCHANGED extVars)
  /\ WF_vars(RunMicrotask /\ UNCHANGED extVars)
  /\ \A t \in TaskIds :
       WF_vars(\E ok \in BOOLEAN : TaskSettles(t, ok) /\ UNCHANGED extVars)

SpecOneQueueLive == Init /\ [][NextOneQueue]_vars /\ FairOneQueue

\* Two AppleRunner instances configured with the same appId, each with the
\* QueueManager its constructor made
NextTwoRunners ==
  \/ Execute(RunnerAppId) /\ UNCHANGED extVars
  \/ ExecuteSecond(RunnerAppId)
  \/ EndTurn /\ UNCHANGED extVars
  \/ RunMicrotask /\ UNCHANGED extVars
  \/ \E t \in TaskIds, ok \in BOOLEAN : TaskSettles(t, ok) /\ UNCHANGED extVars

SpecTwoRunners == Init /\ [][NextTwoRunners]_vars

\* One Queue object whose task functions throw errors of their own choice
NextQueueErrors ==
  \/ Execute("a") /\ UNCHANGED extVars
  \/ \E e \in ClearArgs : ClearQueue("a", e) /\ UNCHANGED extVars
  \/ EndTurn /\ UNCHANGED extVars
  \/ RunMicrotask /\ UNCHANGED extVars
  \/ \E t \in TaskIds : TaskSettles(t, TRUE) /\ UNCHANGED extVars
  \/ \E t \in TaskIds, e \in ThrownErrors : TaskThrows(t, e)

SpecQueueErrors == Init /\ [][NextQueueErrors]_vars

\* One Queue object with callers of drain()
NextDrain ==
  \/ Execute("a") /\ UNCHANGED extVars
  \/ \E e \in ClearArgs : ClearQueue("a", e) /\ UNCHANGED extVars
  \/ EndTurn /\ UNCHANGED extVars
  \/ RunMicrotask /\ UNCHANGED extVars
  \/ \E t \in TaskIds, ok \in BOOLEAN : TaskSettles(t, ok) /\ UNCHANGED extVars
  \/ \E d \in DrainIds : DrainCall(d, "a")
  \/ \E d \in DrainIds : DrainPoll(d)
  \/ \E d \in DrainIds : DrainPollBusy(d)

SpecDrain == Init /\ [][NextDrain]_vars

\* The registry with callers of drainAll()
NextDrainAll ==
  \/ \E k \in AppIds : Execute(k) /\ UNCHANGED extVars
  \/ \E k \in AppIds : ClearQueue(k, "undefined") /\ UNCHANGED extVars
  \/ \E k \in AppIds : PruneQueue(k) /\ UNCHANGED extVars
  \/ EndTurn /\ UNCHANGED extVars
  \/ microtasks # <<>> /\ Head(microtasks) \in QIds /\ RunMicrotask /\ UNCHANGED extVars
  \/ \E t \in TaskIds : TaskSettles(t, TRUE) /\ UNCHANGED extVars
  \/ \E d \in DrainIds : DrainAllCall(d)
  \/ \E d \in DrainIds : DrainAllResumes(d)
  \/ \E d \in DrainIds : DrainAllPoll(d)

SpecDrainAll == Init /\ [][NextDrainAll]_vars

\* One runner, configured with any retry bound, and its callers
NextRunner ==
  \/ \E r \in RunIds, inp \in RunInputs, h \in SUBSET Hooks : Run(r, inp, h)
  \/ \E r \in RunIds : RunContinues(r)
  \/ \E r \in RunIds, post \in PostOutcomes, h \in SUBSET Hooks : AttemptResumes(r, post, h)
  \/ \E r \in RunIds, h \in SUBSET Hooks : RetryStarts(r, h)
  \/ \E t \in TaskIds, out \in ProcessOutcomes : ScriptEnds(t, out)
  \/ ClearRunner
  \/ EndTurnRunner
  \/ StartRunner

\* new AppleRunner(config) with any maxRetries
InitRunner == InitManager /\ (\E n \in RetryBounds : InitRunnerWith(n)) /\ call = NoCall

SpecRunner == InitRunner /\ [][NextRunner]_vars

\* One runner without retries, called with parameters of every size
NextSizes ==
  \/ \E r \in RunIds, inp \in SizeInputs : Run(r, inp, {})
  \/ \E r \in RunIds : RunContinues(r)
  \/ \E r \in RunIds, post \in PostOutcomes : AttemptResumes(r, post, {})
  \/ \E t \in TaskIds, out \in ProcessOutcomes : ScriptEnds(t, out)
  \/ EndTurnRunner
  \/ StartRunner

SpecSizes == Init /\ [][NextSizes]_vars

\* The timeout resolution of an attempt, for every combination of settings
InitTimeouts ==
  /\ InitManager /\ InitRunnerWith(0)
  /\ \E s \in TimeoutSettings :
       call = [fn |-> "buildScriptContext", settings |-> s, done |-> FALSE,
               timeoutSec |-> Absent, controllerTimeoutMs |-> Absent]

NextTimeouts == BuildScriptContext

SpecTimeouts == InitTimeouts /\ [][NextTimeouts]_vars

\* marshalParam() on values of every supported shape
InitMarshal ==
  /\ InitManager /\ InitRunnerWith(0)
  /\ \E p \in MarshalValues :
       call = [fn |-> "marshalParam", param |-> p, done |-> FALSE, literal |-> <<>>]

NextMarshal == MarshalParam

SpecMarshal == InitMarshal /\ [][NextMarshal]_vars

\* The codec on every output text and on every matrix of rows
InitProtocol ==
  /\ InitManager /\ InitRunnerWith(0)
  /\ \/ \E out \in TextsUpTo(OutChars, MaxOut) :
          call = [fn |-> "parseProtocolResponse", stdout |-> out, done |-> FALSE,
                  response |-> Response(FALSE, <<>>, 0, <<>>), scalar |-> <<>>]
     \/ \E matrix \in RowsValues :
          call = [fn |-> "parseRows", matrix |-> matrix, done |-> FALSE,
                  payload |-> <<>>, rows |-> <<>>]

NextProtocol ==
  \/ ParseProtocolResponse
  \/ ParseRows

SpecProtocol == InitProtocol /\ [][NextProtocol]_vars

TypeOK ==
  /\ queues \in [AppIds -> QIds \cup {NoQueue}]
  /\ created \in 0..MaxQueues
  /\ submitted \in 0..MaxTasks
  /\ callerActive \in BOOLEAN
  /\ \A q \in QIds : clearEpoch[q] \in 0..MaxClears
  /\ \A q \in QIds : Len(tasks[q]) <= MaxTasks

\* =================================================================== claims
\* the tasks of Queue object q whose promise is still waiting for a start
pendingOf(q) == {t \in TaskIds : task[t].queue = q /\ task[t].state = "pending"}
executingOf(q) == {t \in TaskIds : task[t].queue = q /\ task[t].state = "executing"}
\* t ran its function to the end and settled with its own outcome
settledNaturally(t) ==
  \/ task[t].state = "resolved"
  \/ task[t].state = "rejected" /\ task[t].error = TaskError

\* C1: no two tasks submitted under the same appId are executing at the same
\* time, whatever registry operations were interleaved.
C1_SerializedPerKey ==
  \A t, u \in TaskIds :
    (t # u /\ task[t].state = "executing" /\ task[u].state = "executing")
      => task[t].appId # task[u].appId

\* C2: within one Queue object at most one task is executing at any time.
C2_OneExecutingPerQueue ==
  \A q \in QIds : Cardinality(executingOf(q)) <= 1

\* a task is executing while another one, added meanwhile, waits in the list
C2_Witness ==
  \E q \in QIds : isProcessing[q] /\ executingOf(q) # {} /\ pendingOf(q) # {}

\* C3: add() never starts work synchronously: a task added in the turn that
\* is still running has not been invoked, and no task was ever invoked in
\* the turn that added it.
C3_DeferredStart ==
  \A t \in TaskIds :
    /\ ~task[t].startedSync
    /\ task[t].sync => ~task[t].invoked

\* a task added to an idle queue has been started by the deferred callback
C3_Witness ==
  \E t \in TaskIds : task[t].invoked /\ ~task[t].startedSync /\ task[t].state = "executing"

\* C4: a task that was pending when clear(err) was called is rejected with
\* that clear's error and its function is never invoked.
C4_PendingRejectedWithClearError ==
  \A t \in TaskIds :
    task[t].cutBy # 0 =>
      /\ task[t].state = "rejected"
      /\ task[t].error = clearError(clearLog[task[t].queue][task[t].cutBy])
      /\ ~task[t].invoked

\* add() directly followed by clear(E1) in the same synchronous turn
C4_Witness ==
  \E t \in TaskIds :
    /\ task[t].sync /\ callerActive
    /\ task[t].cutBy # 0
    /\ task[t].state = "rejected" /\ task[t].error = "E1"

\* C5: a task that was executing when clear() was called keeps executing and
\* settles with its own result or its own error, never with the clear error.
C5_InFlightImmunity ==
  \A t \in TaskIds :
    task[t].inFlightAtClear =>
      /\ task[t].cutBy = 0
      /\ task[t].state = "executing" \/ settledNaturally(t)

\* a clear() rejected a pending task while another task was executing, and
\* that task then resolved with its result
C5_Witness ==
  \E t, u \in TaskIds :
    /\ task[t].queue = task[u].queue
    /\ task[t].inFlightAtClear /\ task[t].state = "resolved"
    /\ task[u].cutBy # 0 /\ task[u].state = "rejected"

\* C6: the tasks of one appId that are executed start and complete in the
\* order in which they were enqueued (task numbers are enqueue order).
C6_FifoPerKey ==
  \A t, u \in TaskIds :
    (t < u /\ task[u].state # "unused" /\ task[t].appId = task[u].appId) =>
      /\ task[u].invoked => task[t].state # "pending"
      /\ (task[u].invoked /\ task[u].state # "executing")
           => task[t].state \notin {"pending", "executing"}

\* two clear() calls with different errors were the last two made on q
twoClears(q) ==
  /\ Len(clearLog[q]) >= 2
  /\ clearError(clearLog[q][Len(clearLog[q])]) # clearError(clearLog[q][Len(clearLog[q]) - 1])

\* C7 as stated: after two sequential clear() calls with different errors,
\* every cancelled task whose captured epoch predates the latest clear is
\* rejected with the latest clear's error.
C7_AsStated ==
  \A t \in TaskIds :
    (/\ task[t].state # "unused"
     /\ twoClears(task[t].queue)
     /\ ~task[t].invoked
     /\ task[t].epoch < clearEpoch[task[t].queue]) =>
      /\ task[t].state = "rejected"
      /\ task[t].error = lastClearError[task[t].queue]

\* C7 as amended: after two sequential clear() calls with different errors,
\* a task whose captured epoch predates the latest clear and that was still
\* pending when that clear was called is rejected with the latest clear's error.
C7_EpochCorrectness ==
  \A t \in TaskIds :
    (/\ task[t].state # "unused"
     /\ twoClears(task[t].queue)
     /\ task[t].epoch < clearEpoch[task[t].queue]
     /\ task[t].cutBy = Len(clearLog[task[t].queue])) =>
      /\ task[t].state = "rejected"
      /\ task[t].error = lastClearError[task[t].queue]

\* clear(E1) rejected one task, clear(E2) rejected a task added in between
C7_Witness ==
  \E t, u \in TaskIds :
    /\ task[t].cutBy = 1 /\ task[t].error = "E1"
    /\ task[u].cutBy = 2 /\ task[u].epoch = 1 /\ task[u].error = "E2"
    /\ task[t].queue = task[u].queue /\ twoClears(task[t].queue)

\* C8: a prune removes a registered queue only if the queue is idle and its
\* raw size is zero, and a prune of such a queue does remove it.
C8_PruneIffIdleAndRawEmpty ==
  [][\A k \in AppIds :
       /\ (queues[k] # NoQueue /\ queues'[k] = NoQueue)
            => (~isProcessing[queues[k]] /\ currentLength(queues[k]) = 0)
       /\ (/\ queues[k] # NoQueue
           /\ PruneQueue(k) \/ PruneAll
           /\ ~isProcessing[queues[k]] /\ currentLength(queues[k]) = 0)
            => queues'[k] = NoQueue]_vars

\* C9: k >= 1 tasks added to an idle queue and none started yet: length is
\* k - 1 and getStats().currentLength is k.
C9_LengthAccounting ==
  \A q \in QIds :
    (~isProcessing[q] /\ pendingOf(q) # {}) =>
      /\ length(q) = Cardinality(pendingOf(q)) - 1
      /\ currentLength(q) = Cardinality(pendingOf(q))

\* three rapid add() calls before the first task starts
C9_Witness ==
  \E q \in QIds :
    /\ ~isProcessing[q] /\ processingScheduled[q]
    /\ Cardinality(pendingOf(q)) = 3 /\ length(q) = 2 /\ currentLength(q) = 3

\* C10: clearEpoch never decreases, and every clear() call increases it.
C10_EpochMonotonic ==
  [][\A q \in QIds :
       /\ clearEpoch'[q] >= clearEpoch[q]
       /\ Len(clearLog'[q]) > Len(clearLog[q]) => clearEpoch'[q] > clearEpoch[q]]_vars

\* a queue that was cleared twice, the second time while empty
C10_Witness ==
  \E q \in QIds : Len(clearLog[q]) = 2 /\ clearEpoch[q] = 2 /\ created >= 1

\* the two timeout errors
TimeoutNames == {"TimeoutAppleEventError", "TimeoutOSAScriptError"}

\* C11: with maxRetries N a run() call makes at most N + 1 attempts and at
\* most N retries, and a run() that fails returns the failure of its last
\* attempt; with N = 1 the second attempt, made after a timeout, is the last
\* one whether it fails with a timeout or with another error.
C11_RetryBound ==
  \A r \in RunIds :
    LET rec == run[r] IN
    /\ rec.attempts <= (IF maxRetries >= 0 THEN maxRetries + 1 ELSE 0)
    /\ maxRetries >= 0 => rec.retryCount <= maxRetries
    /\ (rec.state = "done" /\ ~rec.result.ok /\ rec.attempts > 0) =>
         /\ Len(rec.log) = rec.attempts
         /\ rec.result = rec.log[Len(rec.log)]
    /\ (maxRetries = 1 /\ Len(rec.log) = 2) =>
         /\ rec.log[1].error.name \in TimeoutNames
         /\ rec.state = "done" /\ rec.retryCount = 1 /\ rec.attempts = 2
         /\ rec.result = rec.log[2]

\* maxRetries = 1 and two timeouts in a row: one retry, the second timeout returned
C11_Witness ==
  \E r \in RunIds :
    /\ maxRetries = 1 /\ run[r].state = "done" /\ Len(run[r].log) = 2
    /\ run[r].log[1].error.name = "TimeoutOSAScriptError"
    /\ run[r].log[2].error.name = "TimeoutAppleEventError"
    /\ run[r].result = run[r].log[2] /\ run[r].retryCount = 1

\* C12: a failed attempt is followed by another attempt if and only if its
\* error is one of the two timeout errors and fewer than maxRetries retries
\* were made before it.
C12_RetryIffTimeout ==
  \A r \in RunIds : \A i \in 1..Len(run[r].log) :
    LET rec == run[r]
        res == rec.log[i]
        retried == i < rec.attempts \/ (i = Len(rec.log) /\ rec.state = "delaying")
    IN ~res.ok => (retried <=> (res.error.name \in TimeoutNames /\ i - 1 < maxRetries))

\* a timeout was retried and the retry failed with a script error, which
\* ended the run although the bound was not reached
C12_Witness ==
  \E r \in RunIds :
    /\ maxRetries = 2 /\ run[r].state = "done" /\ Len(run[r].log) = 2
    /\ run[r].log[1].error.name = "TimeoutAppleEventError"
    /\ run[r].log[2].error.name = "ScriptError"

\* C13: the InputValidation step is executed on the first attempt of a run()
\* call only; retry attempts start at ScriptBuild.
C13_ValidationFirstAttemptOnly ==
  \A r \in RunIds :
    run[r].validations = (IF run[r].attempts > 0 THEN 1 ELSE 0)

C15_ControllerTimeoutCarried ==
  \A r \in RunIds : \A i \in 1..Len(run[r].log) :
    run[r].log[i].error.name = "TimeoutOSAScriptError" =>
      run[r].log[i].error.timeoutMs = controllerTimeoutMs(run[r].input)

\* what the caller of add() receives when the promise of task t rejects
rejectionOf(t) == IF task[t].error = TaskError THEN fnResult[t] ELSE task[t].error

\* C16: what the caller receives for a task that clear() rejected differs
\* from what a caller receives for a task that ran and failed by itself.
C16_ClearDistinguishable ==
  \A t, u \in TaskIds :
    (/\ task[t].state = "rejected" /\ task[t].cutBy # 0
     /\ task[u].state = "rejected" /\ task[u].invoked)
      => rejectionOf(t) # rejectionOf(u)

\* the parameter exceeds the size limit of its type
oversize(p) ==
  \/ p.js /\ p.bytes > JS_CODE_KB * 1024
  \/ ~p.js /\ p.type = "string" /\ p.bytes > STRING_ARG_KB * 1024
  \/ ~p.js /\ p.type = "array"
       /\ (p.items > ARRAY_ITEMS \/ (p.items > 0 /\ p.bytes > STRING_ARG_KB * 1024))

SizeMessages == {"String argument exceeds maximum size", "Array exceeds maximum length",
                 "JavaScript code exceeds maximum size"}

\* C17: a run() call with a parameter over its size limit never enqueues a
\* task and fails with the error of the size check.
C17_SizesCheckedBeforeProcess ==
  \A r \in RunIds :
    (run[r].state # "idle" /\ oversize(run[r].input.param)) =>
      /\ run[r].enqueued = 0 /\ run[r].task = 0
      /\ run[r].state \in {"returned", "done"}
      /\ ~run[r].res.ok /\ run[r].res.error.message \in SizeMessages
      /\ run[r].state = "done" => run[r].result = run[r].res

\* a call with 1001 array items has failed while the script of another call ran
C17_Witness ==
  \E r, s \in RunIds :
    /\ run[r].state = "done" /\ run[r].input.param.type = "array"
    /\ run[r].input.param.items > ARRAY_ITEMS
    /\ run[r].result.error.message = "Array exceeds maximum length"
    /\ run[r].enqueued = 0
    /\ run[s].state = "done" /\ run[s].result.ok

\* C18: when the function of a task fails, that task alone is rejected, with
\* the function's error, and the loop goes on with the head of the list.
C18_FailureIsolated ==
  [][\A t \in TaskIds :
       (task[t].state = "executing" /\ task'[t].state = "rejected") =>
         /\ task'[t].error = TaskError
         /\ \A u \in TaskIds \ {t} : task'[u].state = "rejected" => task[u].state = "rejected"
         /\ tasks[task[t].queue] # <<>> =>
              /\ task'[Head(tasks[task[t].queue])].state = "executing"
              /\ tasks'[task[t].queue] = Tail(tasks[task[t].queue])
              /\ isProcessing'[task[t].queue]]_vars

\* a task failed and the two tasks behind it were executed in order with
\* outcomes of their own
C18_Witness ==
  /\ task[1].state = "rejected" /\ task[1].error = TaskError
  /\ task[2].state = "resolved" /\ task[2].invoked
  /\ task[3].state = "rejected" /\ task[3].error = TaskError /\ task[3].invoked
  /\ task[1].queue = task[2].queue /\ task[2].queue = task[3].queue

\* C19: clearQueue(k) rejects the pending tasks of key k, leaves the
\* executing task of k executing, and changes neither the tasks nor the
\* queues of any other key.
C19_ClearQueueOnlyThatKey ==
  [][\A k \in AppIds, e \in ClearArgs :
       ClearQueue(k, e) =>
         /\ \A t \in TaskIds : task[t].appId # k => task'[t] = task[t]
         /\ \A j \in AppIds \ {k} :
              queues[j] # NoQueue =>
                /\ tasks'[queues[j]] = tasks[queues[j]]
                /\ isProcessing'[queues[j]] = isProcessing[queues[j]]
                /\ processingScheduled'[queues[j]] = processingScheduled[queues[j]]
         /\ \A t \in TaskIds :
              (task[t].appId = k /\ task[t].state = "executing") => task'[t].state = "executing"
         /\ \A t \in TaskIds :
              (task[t].appId = k /\ task[t].state = "pending") => task'[t].state = "rejected"]_vars

C21_DrainIgnoresLaterTasks ==
  \A d \in DrainIds :
    drain[d].state = "polling" => drain[d].heldBy \cap drain[d].before # {}

\* C22: when drainAll() has returned, every task submitted through execute()
\* before the call, under any key, has settled
C22_DrainAllSettlesEverything ==
  \A d \in DrainIds :
    drain[d].state = "done" =>
      \A t \in drain[d].before : task[t].state \in {"resolved", "rejected"}

\* C23: for every attempt the resolved controller timeout (ms) is larger
\* than the resolved script timeout (s x 1000)
C23_ControllerExceedsScript ==
  (call.fn = "buildScriptContext" /\ call.done) =>
    call.controllerTimeoutMs > call.timeoutSec * 1000

\* the level a timeout is taken from when the levels call, kind and default
\* hold the values a, b and c: the first one that is present
levelOf(a, b, c) ==
  IF a # Absent THEN "call" ELSE IF b # Absent THEN "kind"
  ELSE IF c # Absent THEN "default" ELSE "fallback"

\* C24 as stated: the script timeout and the process timeout are both taken
\* from the highest of the levels per-call, per-kind, global default and
\* hard fallback that is present
C24_AsStated ==
  (call.fn = "buildScriptContext" /\ call.done) =>
    LET s == call.settings IN
    /\ call.timeoutSec =
         CASE levelOf(s.optTimeoutSec, s.timeoutByKind, s.defaultTimeoutSec) = "call"
                -> s.optTimeoutSec
           [] levelOf(s.optTimeoutSec, s.timeoutByKind, s.defaultTimeoutSec) = "kind"
                -> s.timeoutByKind
           [] levelOf(s.optTimeoutSec, s.timeoutByKind, s.defaultTimeoutSec) = "default"
                -> s.defaultTimeoutSec
           [] OTHER -> APPLESCRIPT_SEC
    /\ levelOf(s.optControllerTimeoutMs, s.timeoutByKind, s.defaultControllerTimeoutMs)
         = (IF s.optControllerTimeoutMs # Absent
               /\ call.controllerTimeoutMs = s.optControllerTimeoutMs THEN "call"
            ELSE IF s.defaultControllerTimeoutMs # Absent
               /\ call.controllerTimeoutMs = s.defaultControllerTimeoutMs THEN "default"
            ELSE IF call.controllerTimeoutMs = CONTROLLER_MS THEN "fallback"
            ELSE "kind")

\* C24 (amended): the script timeout is the per-call value, else the per-kind
\* value, else the configured default, else 12 s; the process timeout is the
\* per-call value, else the configured default, else 15000 ms, and the
\* per-kind configuration plays no part in it
C24_TimeoutPrecedence ==
  (call.fn = "buildScriptContext" /\ call.done) =>
    LET s == call.settings IN
    /\ s.optTimeoutSec # Absent => call.timeoutSec = s.optTimeoutSec
    /\ (s.optTimeoutSec = Absent /\ s.timeoutByKind # Absent) =>
         call.timeoutSec = s.timeoutByKind
    /\ (s.optTimeoutSec = Absent /\ s.timeoutByKind = Absent
          /\ s.defaultTimeoutSec # Absent) => call.timeoutSec = s.defaultTimeoutSec
    /\ (s.optTimeoutSec = Absent /\ s.timeoutByKind = Absent
          /\ s.defaultTimeoutSec = Absent) => call.timeoutSec = APPLESCRIPT_SEC
    /\ s.optControllerTimeoutMs # Absent =>
         call.controllerTimeoutMs = s.optControllerTimeoutMs
    /\ (s.optControllerTimeoutMs = Absent /\ s.defaultControllerTimeoutMs # Absent) =>
         call.controllerTimeoutMs = s.defaultControllerTimeoutMs
    /\ (s.optControllerTimeoutMs = Absent /\ s.defaultControllerTimeoutMs = Absent) =>
         call.controllerTimeoutMs = CONTROLLER_MS

\* a resolved attempt whose per-kind script timeout was used while the
\* process timeout came from the configured default
C24_Witness ==
  /\ call.fn = "buildScriptContext" /\ call.done
  /\ call.settings.optTimeoutSec = Absent /\ call.settings.timeoutByKind # Absent
  /\ call.timeoutSec = call.settings.timeoutByKind
  /\ call.settings.optControllerTimeoutMs = Absent
  /\ call.controllerTimeoutMs = call.settings.defaultControllerTimeoutMs

\* what the script must receive for a marshalled value: the string, the
\* list of strings, or the JSON text of the object
intended(p) == IF p.type = "object" THEN jsonStringify(p.value) ELSE p.value

\* C25: the literal of every marshalled value is one well-formed expression
\* that ends where the literal ends and evaluates to exactly the value
C25_InjectionSafe ==
  (call.fn = "marshalParam" /\ call.done) =>
    /\ evaluate(call.literal).ok
    /\ evaluate(call.literal).rest = <<>>
    /\ evaluate(call.literal).value = intended(call.param)

\* a string that holds a quote, a backslash and the text of a concatenation
\* has been marshalled
C25_Witness ==
  /\ call.fn = "marshalParam" /\ call.done
  /\ call.param.type = "string"
  /\ call.param.value = <<DQ, "&", BS>>
  /\ evaluate(call.literal).value = <<DQ, "&", BS>>

\* number of double quotes in a text
RECURSIVE quotesIn(_)
quotesIn(text) ==
  IF text = <<>> THEN 0 ELSE (IF Head(text) = DQ THEN 1 ELSE 0) + quotesIn(Tail(text))

\* reading a literal from left to right (inString: inside a string): the
\* number of quotes escaped with a backslash inside a string, and the number
\* of quote tokens outside every string
RECURSIVE scanLiteral(_, _)
scanLiteral(text, inString) ==
  IF text = <<>> THEN [escaped |-> 0, tokens |-> 0]
  ELSE IF inString /\ Head(text) = BS /\ Len(text) >= 2
    THEN LET r == scanLiteral(SubSeq(text, 3, Len(text)), TRUE) IN
         [r EXCEPT !.escaped = @ + (IF text[2] = DQ THEN 1 ELSE 0)]
  ELSE IF Head(text) = DQ THEN scanLiteral(Tail(text), ~inString)
  ELSE IF ~inString /\ Head(text) = QuoteWord
    THEN LET r == scanLiteral(Tail(text), FALSE) IN [r EXCEPT !.tokens = @ + 1]
  ELSE scanLiteral(Tail(text), inString)

\* the quotes embedded in a marshalled value
embeddedQuotes(p) ==
  IF p.type = "array"
  THEN (IF Len(p.value) >= 1 THEN quotesIn(p.value[1]) ELSE 0)
       + (IF Len(p.value) >= 2 THEN quotesIn(p.value[2]) ELSE 0)
  ELSE quotesIn(intended(p))

\* C30 as stated: in the literal of a string, of a list and of a plain
\* object alike no quote is escaped inside a string; every embedded quote is
\* a quote token between two segments
C30_AsStated ==
  (call.fn = "marshalParam" /\ call.done) =>
    /\ scanLiteral(call.literal, FALSE).escaped = 0
    /\ scanLiteral(call.literal, FALSE).tokens = embeddedQuotes(call.param)

\* C30 (amended): in the literal of a string, of code and of the items of a
\* list no quote is escaped and every embedded quote is a quote token between
\* two segments; the literal of a plain object is one string in which every
\* quote of the JSON text is escaped with a backslash
C30_QuoteHandling ==
  (call.fn = "marshalParam" /\ call.done) =>
    IF call.param.type = "object"
    THEN /\ scanLiteral(call.literal, FALSE).tokens = 0
         /\ scanLiteral(call.literal, FALSE).escaped = embeddedQuotes(call.param)
    ELSE /\ scanLiteral(call.literal, FALSE).escaped = 0
         /\ scanLiteral(call.literal, FALSE).tokens = embeddedQuotes(call.param)

\* a list whose two items hold a quote has been marshalled, and so has an
\* object whose value holds a quote
C30_Witness ==
  /\ call.fn = "marshalParam" /\ call.done
  /\ \/ /\ call.param.type = "array" /\ Len(call.param.value) = 2
        /\ quotesIn(call.param.value[1]) > 0 /\ quotesIn(call.param.value[2]) > 0
        /\ scanLiteral(call.literal, FALSE).tokens >= 2
     \/ /\ call.param.type = "object" /\ quotesIn(call.param.value) > 0
        /\ scanLiteral(call.literal, FALSE).escaped > 4

\* C29: a run() call whose parameter has the code hint and is within the
\* code ceiling is never refused by a size check, whatever its size is
\* compared with the limit of ordinary strings
C29_CodeHintOwnCeiling ==
  \A r \in RunIds :
    (run[r].state # "idle" /\ run[r].input.param.js
       /\ run[r].input.param.bytes <= JS_CODE_KB * 1024) =>
      run[r].res.error.message \notin SizeMessages

\* C26 as stated: every matrix of rows, encoded and decoded, comes back as
\* the same rows with the same fields
C26_AsStated ==
  (call.fn = "parseRows" /\ call.done) => call.rows = call.matrix

\* C26 (amended): a matrix in which the last field of every row is not
\* empty (so no row is without fields) comes back as the same rows with the
\* same fields
C26_RowsRoundTrip ==
  (call.fn = "parseRows" /\ call.done
     /\ \A i \in 1..Len(call.matrix) :
          call.matrix[i] # <<>> /\ call.matrix[i][Len(call.matrix[i])] # <<>>) =>
    call.rows = call.matrix

\* two rows, one of them with empty fields before its last one, have made
\* the round trip
C26_Witness ==
  /\ call.fn = "parseRows" /\ call.done
  /\ call.matrix = << <<<<"a">>, <<"b">>>>, <<<<>>, <<>>, <<"a">>>> >>
  /\ call.rows = call.matrix

\* C27: the code of a decoded ERR envelope is the number written in part 2,
\* and -1 when part 2 is not a number
C27_ErrCode ==
  (call.fn = "parseProtocolResponse" /\ call.done) =>
    LET parts == split(trim(call.stdout), GS) IN
    (Len(parts) >= 2 /\ parts[1] = <<"ERR">>) =>
       LET t == trim(parts[2]) IN
       IF isDigits(t) THEN call.response.code = digitsValue(t)
       ELSE IF t # <<>> /\ Head(t) = "-" /\ isDigits(Tail(t))
         THEN call.response.code = 0 - digitsValue(Tail(t))
       ELSE call.response.code = -1

\* C28 as stated: for an output that begins with OK and a Group separator
\* the payload is the text of the output after that separator
C28_AsStated ==
  (call.fn = "parseProtocolResponse" /\ call.done
     /\ Len(call.stdout) >= 2 /\ call.stdout[1] = "OK" /\ call.stdout[2] = GS) =>
    /\ call.response.ok
    /\ call.response.payload = SubSeq(call.stdout, 3, Len(call.stdout))
    /\ call.scalar = call.response.payload

\* C28 (amended): for an output that, with the white space around it taken
\* off, begins with OK and a Group separator, the payload is the text of the
\* trimmed output after that separator, and the scalar result is the payload
C28_OkPayload ==
  (call.fn = "parseProtocolResponse" /\ call.done) =>
    LET output == trim(call.stdout) IN
    (Len(output) >= 2 /\ output[1] = "OK" /\ output[2] = GS) =>
      /\ call.response.ok
      /\ call.response.payload = SubSeq(output, 3, Len(output))
      /\ call.scalar = call.response.payload

\* an OK output whose payload holds a Group separator has been decoded, and
\* so has one with an empty payload
C28_Witness ==
  /\ call.fn = "parseProtocolResponse" /\ call.done
  /\ \/ call.stdout = <<"OK", GS, "a", GS>> /\ call.scalar = <<"a", GS>>
     \/ call.stdout = <<"OK", GS>> /\ call.response.ok /\ call.scalar = <<>>

\* the errors a clear() call may reject with
ClearErrors == {clearError(e) : e \in ClearArgs}

\* C31: every task passed to add() eventually settles; a settled task is
\* resolved after its function ran, rejected with its function's error, or
\* rejected with a clear error without having run; and once settled its
\* outcome never changes.
C31_EverySettlesOnce ==
  /\ \A t \in TaskIds :
       (task[t].state \in {"pending", "executing"}) ~>
         (task[t].state \in {"resolved", "rejected"})
  /\ [](\A t \in TaskIds :
         /\ task[t].state = "resolved" => task[t].invoked /\ task[t].error = NoError
         /\ task[t].state = "rejected" =>
              \/ task[t].invoked /\ task[t].error = TaskError
              \/ ~task[t].invoked /\ task[t].error \in ClearErrors)
  /\ [][\A t \in TaskIds :
         task[t].state \in {"resolved", "rejected"} =>
           /\ task'[t].state = task[t].state
           /\ task'[t].error = task[t].error]_vars

\* three tasks of one queue have settled in the three ways
C31_Witness ==
  \E t, u, v \in TaskIds :
    /\ task[t].state = "resolved" /\ task[t].invoked
    /\ task[u].state = "rejected" /\ task[u].invoked /\ task[u].error = TaskError
    /\ task[v].state = "rejected" /\ ~task[v].invoked /\ task[v].error \in ClearErrors

\* C37: totalProcessed counts the tasks whose function ran and succeeded,
\* totalFailed those whose function ran and failed; a task rejected by
\* clear() never ran and is in neither count.
C37_CountersMatchExecutions ==
  \A q \in QIds :
    /\ stats[q].totalProcessed =
         Cardinality({t \in TaskIds : task[t].queue = q /\ task[t].invoked
                                        /\ task[t].state = "resolved"})
    /\ stats[q].totalFailed =
         Cardinality({t \in TaskIds : task[t].queue = q /\ task[t].invoked
                                        /\ task[t].state = "rejected"})
    /\ \A t \in TaskIds : task[t].cutBy # 0 => ~task[t].invoked

\* one task succeeded, one failed and one was rejected by clear()
C37_Witness ==
  /\ stats[1].totalProcessed = 1 /\ stats[1].totalFailed = 1
  /\ \E t \in TaskIds : task[t].queue = 1 /\ task[t].state = "rejected" /\ task[t].cutBy # 0

\* the start of Queue object q is in the microtask queue
startQueued(q) == \E i \in 1..Len(microtasks) : microtasks[i] = q

\* C38: a queue whose pending list is not empty is processing or has a
\* start scheduled that the runtime will run.
C38_NoStrandedTask ==
  \A q \in QIds :
    tasks[q] # <<>> => isProcessing[q] \/ (processingScheduled[q] /\ startQueued(q))

\* after a clear() and the end of all processing, a new task waits for the
\* start that add() scheduled
C38_Witness ==
  /\ clearEpoch[1] > 0 /\ stats[1].totalProcessed > 0
  /\ tasks[1] # <<>> /\ ~isProcessing[1] /\ processingScheduled[1]

\* C39: every task in a pending list carries the current clearEpoch of its
\* queue, so the head taken by the loop is never of an older epoch.
C39_PendingEpochCurrent ==
  \A q \in QIds : \A i \in 1..Len(tasks[q]) : task[tasks[q][i]].epoch = clearEpoch[q]

\* tasks added after a clear() are pending behind an executing one
C39_Witness ==
  /\ clearEpoch[1] = 2 /\ isProcessing[1] /\ Len(tasks[1]) = 2
  /\ task[tasks[1][1]].epoch = 2

\* C33: no two scripts are executing against the same application id at the
\* same time, also when they were submitted through different runners
\* configured with that id.
C33_OneScriptPerApp ==
  \A t, u \in TaskIds :
    (t # u /\ task[t].state = "executing" /\ task[u].state = "executing") =>
      task[t].appId # task[u].appId

\* the script of the latest attempt of run() call r is executing
scriptRunning(r) == run[r].enqueued > 0 /\ task[run[r].task].state = "executing"

\* run() call r still has an attempt of its own queued, executing or to come
attemptOutstanding(r) ==
  \/ run[r].state = "delaying"
  \/ run[r].state = "waiting" /\ task[run[r].task].state \in {"pending", "executing"}

\* C32: the script of a later-submitted operation is not executing while an
\* earlier-submitted operation of the same runner still has an attempt
\* outstanding, retries included.
C32_SubmissionOrder ==
  \A r, s \in RunIds :
    (r < s /\ scriptRunning(s)) => ~attemptOutstanding(r)

\* C34: when an attempt has returned a result, exactly one of onResult and
\* onError was called in it, and called once.
C34_ExactlyOneHook ==
  \A r \in RunIds :
    (run[r].attempts > 0 /\ run[r].state \in {"returned", "delaying", "done"}) =>
      run[r].onResultCalls + run[r].onErrorCalls = 1

\* C35: a hook that throws never makes run() reject, and an attempt whose
\* operation succeeded still returns ok:true (one that failed, ok:false).
C35_HookErrorsContained ==
  \A r \in RunIds :
    run[r].hookThrew =>
      /\ run[r].state # "rejected"
      /\ run[r].state \in {"returned", "delaying", "done"} =>
           /\ run[r].opOk = "ok" => run[r].res.ok
           /\ run[r].opOk = "fail" => ~run[r].res.ok

\* C36: totalOperations is the sum of successfulOperations, failedOperations
\* and the run() calls that have not returned yet.
C36_CountersConserved ==
  rstats.totalOperations =
    rstats.successfulOperations + rstats.failedOperations
      + Cardinality({r \in RunIds : run[r].state \notin {"idle", "done", "rejected"}})

\* C40: a run() call that has returned made at least one attempt and did not
\* return the fallback failure "Unknown error".
C40_NoFallbackResult ==
  \A r \in RunIds :
    run[r].state = "done" => run[r].attempts >= 1 /\ run[r].result # UnknownFailure
====
